---- MODULE Spec2Model ----
(***************************************************************************)
(* A model of nishanths/impl: the fan-out/fan-in symbol aggregation of     *)
(* getObjects (impl.go), getObjectsPkg and converge, followed by the       *)
(* interface matcher findImplementers, as driven by mainImpl.              *)
(***************************************************************************)
EXTENDS Integers, Sequences, FiniteSets, TLC

\* Largest number of compilation units (entries of the map parsePath returns).
MaxUnits == 2

\* Largest number of directories filepath.Walk visits, the root included.
MaxDirs == 2

\* Longest symbol universe handed to findImplementers on its own.
MaxLen == 3

\* The deepest nesting of pointers tried.
MaxDepth == 3

(***************************************************************************)
(* go/types values.  A type is a record: a named type carries its printed  *)
(* name, the position of its declaration, whether its underlying type is   *)
(* an interface, and its methods (vm: in the method set of the type, pm:   *)
(* declared on the pointer receiver only); a pointer carries its element.  *)
(* A method is a <<name, signature>> pair.                                 *)
(***************************************************************************)
Named(name, pos, iface, vm, pm) ==
    [k |-> "Named", name |-> name, pos |-> pos, iface |-> iface, vm |-> vm, pm |-> pm]

Pointer(elem) == [k |-> "Pointer", elem |-> elem]

Basic(name) == [k |-> "Basic", name |-> name]

Dine == <<"Dine", "func() int">>

DineStr == <<"Dine", "func() string">>

Drink == <<"Drink", "func()">>

\* type A interface { Dine() int }, declared by package object 1
TypA == Named("p.A", 11, TRUE, {Dine}, {})

\* a type printed p.A as well, declared by another package object
TypA2 == Named("p.A", 21, TRUE, {Dine}, {})

\* type B interface { Drink(); A }
TypB == Named("p.B", 12, TRUE, {Dine, Drink}, {})

\* type D2 interface { Dine() int }
TypD2 == Named("p.D2", 13, TRUE, {Dine}, {})

\* type T struct{}; func (t T) Drink(); func (t *T) Dine() int
TypT == Named("p.T", 14, FALSE, {Drink}, {Dine})

\* type X int; func (x X) Dine() string; func (x X) Drink()
TypX == Named("p.X", 15, FALSE, {DineStr, Drink}, {})

\* types.TypeString(typ, nil)
RECURSIVE TypeString(_)
TypeString(typ) ==
    IF typ.k = "Pointer" THEN "*" \o TypeString(typ.elem) ELSE typ.name

\* types.IsInterface(typ): the underlying type is an interface
IsInterface(typ) == typ.k = "Named" /\ typ.iface

\* A method set that leaves a pointer without methods.
MethodSetValueOnly(typ) == IF typ.k = "Named" THEN typ.vm ELSE {}

\* The method set go/types computes for typ.
MethodSet(typ) ==
    IF typ.k = "Named" THEN typ.vm
    ELSE IF typ.k = "Pointer" /\ typ.elem.k = "Named" /\ ~typ.elem.iface
         THEN typ.elem.vm \cup typ.elem.pm
         ELSE {}

NoPos == 0

\* findDef looking behind one pointer only.
findDefShallow(typ) ==
    IF typ.k = "Named" THEN typ.pos
    ELSE IF typ.k = "Pointer" /\ typ.elem.k = "Named" THEN typ.elem.pos
    ELSE NoPos

\* findDef: the position of the declared type behind typ.
RECURSIVE findDef(_)
findDef(typ) ==
    IF typ.k = "Named" THEN typ.pos
    ELSE IF typ.k = "Pointer" THEN findDef(typ.elem)
    ELSE NoPos

\* A types.Object: the package object it belongs to and its type.
Object(pkg, typ) == [pkg |-> pkg, typ |-> typ]

\* obj == nil in info.Defs (a definition without an object, e.g. the package clause).
NilObject == [pkg |-> 0, typ |-> Basic("nil")]

\* An ObjectIdent{obj, ident, fset}; the *ast.Ident is its identity n and
\* whether its Obj field is set.
ObjectIdent(obj, n, linked) == [Object |-> obj, Ident |-> [id |-> n, Obj |-> linked]]

\* The declarations the symbol universes are drawn from: the types above,
\* two receivers of *T, and a parameter of type A (ident 18).
Symbols ==
    { ObjectIdent(Object(1, TypA), 11, TRUE),
      ObjectIdent(Object(1, TypB), 12, TRUE),
      ObjectIdent(Object(1, TypD2), 13, TRUE),
      ObjectIdent(Object(1, TypT), 14, TRUE),
      ObjectIdent(Object(1, Pointer(TypT)), 15, TRUE),
      ObjectIdent(Object(1, Pointer(TypT)), 16, TRUE),
      ObjectIdent(Object(1, TypX), 17, TRUE),
      ObjectIdent(Object(1, TypA), 18, TRUE),
      ObjectIdent(Object(2, TypA2), 21, TRUE) }

\* type E interface{}
TypE == Named("p.E", 19, TRUE, {}, {})

\* typ behind d pointers.
RECURSIVE Nest(_, _)
Nest(typ, d) == IF d = 0 THEN typ ELSE Pointer(Nest(typ, d - 1))

\* The types findDef is tried on: a named type and a basic type, each
\* behind 0..MaxDepth pointers.
PosBases == { TypT, Basic("int") }

\* Declarations of these types (variables, say) and the declaration of E.
PosSymbols ==
    { ObjectIdent(Object(1, TypE), 19, TRUE) }
    \cup { ObjectIdent(Object(1, Nest(TypT, d)), 40 + d, TRUE) : d \in 0..MaxDepth }
    \cup { ObjectIdent(Object(1, Nest(Basic("int"), d)), 60 + d, TRUE) : d \in 0..MaxDepth }

\* The string a sequence of tokens spells.
RECURSIVE Text(_)
Text(toks) == IF toks = <<>> THEN "" ELSE toks[1] \o Text(Tail(toks))

\* The -interface flags tried by the matcher.
TargetFlags == { <<"p", ".", "A">>, <<"p", ".", "B">>, <<"p", ".", "T">> }

Targets == { Text(f) : f \in TargetFlags }

(***************************************************************************)
(* package testpkg of the tests (internal/testdata/p3).  An embedded       *)
(* interface or field gives its methods to the embedding type.             *)
(***************************************************************************)
Exist == <<"Exist", "func()">>

Bar == <<"Bar", "func()">>

Baz == <<"Baz", "func(int)">>

Speak == <<"Speak", "func(string)">>

Form == <<"Form", "func(int) error">>

\* type Planet interface { Exist(); Bar(); Baz(qux int) }
TypPlanet == Named("testpkg.Planet", 31, TRUE, {Exist, Bar, Baz}, {})

\* type Human interface { Planet; Speak(s string) }
TypHuman == Named("testpkg.Human", 32, TRUE, MethodSet(TypPlanet) \cup {Speak}, {})

\* type Landmass interface { Planet; Form(y int) error }
TypLandmass == Named("testpkg.Landmass", 33, TRUE, MethodSet(TypPlanet) \cup {Form}, {})

\* type p Planet
Typp == Named("testpkg.p", 34, TRUE, MethodSet(TypPlanet), {})

\* type Fjord struct { p }; func (f *Fjord) Form(a int) error
TypFjord == Named("testpkg.Fjord", 35, FALSE, MethodSet(Typp), {Form})

\* The symbols the package gives: its five types, the embedded field p, the
\* receiver f and a parameter, all of package object 3.
P3Universe ==
    << ObjectIdent(Object(3, TypPlanet), 31, TRUE),
       ObjectIdent(Object(3, TypHuman), 32, TRUE),
       ObjectIdent(Object(3, TypLandmass), 33, TRUE),
       ObjectIdent(Object(3, Typp), 34, TRUE),
       ObjectIdent(Object(3, TypFjord), 35, TRUE),
       ObjectIdent(Object(3, Typp), 36, TRUE),
       ObjectIdent(Object(3, Pointer(TypFjord)), 37, TRUE),
       ObjectIdent(Object(3, Basic("int")), 38, TRUE) >>

\* The -interface flags the tests of the package use, and testpkg.p.
P3Flags ==
    { <<"testpkg", ".", "Planet">>, <<"testpkg", ".", "Human">>,
      <<"testpkg", ".", "Landmass">>, <<"testpkg", ".", "p">> }

\* A Char of the type name alone.
NewCharByName(obj) == <<0, TypeString(obj.typ)>>

\* A Char{pkg, typeName}.
NewChar(obj) == <<obj.pkg, TypeString(obj.typ)>>

\* A ResultIdentifier{Name, Pos}.  Sym records which symbol the entry was
\* made from (history only: the program keeps Name and Pos).
NewResultIdentifier(o) ==
    [Name |-> TypeString(o.Object.typ), Pos |-> findDef(o.Object.typ), Sym |-> o]

\* filterInterfaces without the types.IsInterface test.
filterInterfacesByNameOnly(objs, name) ==
    SelectSeq(objs, LAMBDA o : TypeString(o.Object.typ) = name)

\* filterInterfaces: the interfaces of objs printed as name, in order.
filterInterfaces(objs, name) ==
    SelectSeq(objs, LAMBDA o : IsInterface(o.Object.typ) /\ TypeString(o.Object.typ) = name)

\* types.Implements satisfied by one common method.
ImplementsSome(v, t) == \E x \in MethodSet(t) : x \in MethodSet(v)

\* types.Implements(V, T): every method of interface T is in V's method set
\* with an identical signature.
Implements(v, t) == \A x \in MethodSet(t) : x \in MethodSet(v)

\* intuitiveImplements without the test of line 259.
intuitiveImplementsSelf(obj, iface) == Implements(obj.typ, iface.typ)

\* intuitiveImplements with the arguments of types.Implements exchanged.
intuitiveImplementsSwapped(obj, iface) ==
    IF NewChar(obj) = NewChar(iface) THEN FALSE
    ELSE Implements(iface.typ, obj.typ)

\* intuitiveImplements
intuitiveImplements(obj, iface) ==
    IF NewChar(obj) = NewChar(iface) THEN FALSE
    ELSE Implements(obj.typ, iface.typ)

\* The test of line 122, inverted.
skipConcreteInverted(co, typ) == co /\ ~IsInterface(typ)

\* findImplementers line 122: concreteOnly && types.IsInterface(obj.Type())
skipConcrete(co, typ) == co /\ IsInterface(typ)

\* seen[in][o] = true, forgotten.
SeenPutNothing(s, in, o) == s

\* seen[in][o] = true
SeenPut(s, in, o) == [s EXCEPT ![in] = @ \cup {o}]

\* seen[in] = make(CharSet)
SeenAdd(s, in) == [c \in (DOMAIN s) \cup {in} |-> IF c = in THEN {} ELSE s[c]]

\* findImplementers lines 115-128 as a function: the inner loop from index k
\* on, for interface iface, with the table sn and the implementers found so far.
RECURSIVE innerLoop(_, _, _, _, _, _)
innerLoop(objs, k, iface, co, sn, impl) ==
    IF k > Len(objs) THEN impl
    ELSE LET in == NewChar(iface.Object)
             o == NewChar(objs[k].Object)
         IN  IF o \in sn[in] THEN innerLoop(objs, k + 1, iface, co, sn, impl)
             ELSE IF skipConcrete(co, objs[k].Object.typ)
                  THEN innerLoop(objs, k + 1, iface, co, SeenPut(sn, in, o), impl)
             ELSE IF intuitiveImplements(objs[k].Object, iface.Object)
                  THEN innerLoop(objs, k + 1, iface, co, SeenPut(sn, in, o),
                                 Append(impl, NewResultIdentifier(objs[k])))
             ELSE innerLoop(objs, k + 1, iface, co, SeenPut(sn, in, o), impl)

\* findImplementers lines 106-130 as a function: the outer loop from index k on.
RECURSIVE outerLoop(_, _, _, _, _, _)
outerLoop(objs, ifaces, k, co, sn, acc) ==
    IF k > Len(ifaces) THEN acc
    ELSE LET in == NewChar(ifaces[k].Object)
         IN  IF in \in DOMAIN sn THEN outerLoop(objs, ifaces, k + 1, co, sn, acc)
             ELSE outerLoop(objs, ifaces, k + 1, co, SeenAdd(sn, in),
                     Append(acc, [Interface |-> NewResultIdentifier(ifaces[k]),
                                  Implementers |->
                                      innerLoop(objs, 1, ifaces[k], co, SeenAdd(sn, in), <<>>)]))

\* findImplementers(objects, targetInterface, concreteOnly), as a function.
findImplementers(objs, target, co) ==
    outerLoop(objs, filterInterfaces(objs, target), 1, co, <<>>, <<>>)

VARIABLES
    mainPc,        \* where mainImpl is
    objects,       \* mainImpl's objects
    argPath,       \* arg.Path, as the sequence of its path elements (<<>> is "")
    argInterface,  \* arg.Interface, as its sequence of tokens: a "." or a name
    argFormat,     \* arg.Format
    targetInterface, concreteOnly,   \* arg.Interface as a string, arg.ConcreteOnly
    printed,       \* what output was called with (<<>> before that)
    \* getObjects and the tasks it starts
    pathOK,        \* whether parsePath succeeds
    fs,            \* what the file system holds at the path
    pkgs,          \* the map parsePath returned: the compilation units
    checkOK,       \* per unit, whether conf.Check succeeds
    defs,          \* per unit, the entries of info.Defs
    aggPc,         \* where getObjects is
    sharedChs,     \* the channels appended so far, named by their unit
    rep,           \* per unit, where the task of lines 286-288 is
    repErr,        \* per unit, the value that task sends on errCh
    prod,          \* per unit, where the task of lines 359-367 is
    prodTodo,      \* per unit, the entries its range loop has not visited yet
    prodVal,       \* per unit, the value it is sending on its channel
    chClosed,      \* per unit, whether its channel c is closed
    fwd,           \* per unit, where converge's forwarding task is
    fwdVal,        \* per unit, the value it is sending on x
    wg,            \* converge's WaitGroup counter
    closer,        \* where converge's closing task is
    xClosed,       \* whether converge's x (finalCh) is closed
    result,        \* getObjects' result
    retObjs, retErr,   \* what getObjects returned
    sent,          \* per unit, the values its channel c has carried, in order
    chCloses,      \* per unit, the tasks that have called close on its channel
    xCloses,       \* the tasks that have called close on x
    \* findImplementers
    mPc,           \* where findImplementers is
    interfaces,    \* findImplementers' locals
    seen,
    results,
    res,
    ii,            \* index of the outer range loop
    oi,            \* index of the inner range loop
    tested         \* the pairs that passed line 117, in order, and how they ended

argVars == <<argPath, argInterface, argFormat, targetInterface, concreteOnly>>

inputVars == <<pathOK, fs, pkgs, checkOK, defs>>

\* getObjects' m, by its keys: the compilation units.
m == DOMAIN pkgs

taskVars == <<rep, repErr, prod, prodTodo, prodVal, chClosed, fwd, fwdVal, wg, closer, xClosed>>

aggVars == <<inputVars, aggPc, sharedChs, taskVars, result, retObjs, retErr>>

matchVars == <<mPc, interfaces, seen, results, res, ii, oi, tested>>

\* What the channels have carried and who closed them.
histVars == <<sent, chCloses, xCloses>>

(***************************************************************************)
(* The state of getObjectsRecursive (lines 537-585), of the getObjects and *)
(* getObjectsPkg it calls (lines 589-661) and of the tasks they start.     *)
(***************************************************************************)
VARIABLES
    rRoot,         \* what the path names: "dir" or "file"
    rTree,         \* per directory filepath.Walk visits: whether it could be
                   \* read, whether it parses, the packages parser.ParseDir finds
    rCheckOK,      \* per package, whether conf.Check succeeds
    rDefs,         \* per package, the entries of info.Defs
    rPc,           \* where getObjectsRecursive is
    rResult,       \* its result
    rRetObjs, rRetErr,   \* what it returned
    gPc,           \* per directory, where the task of lines 561-567 is
    gVal,          \* per directory, the value getObjects is sending on ch
    gErr,          \* per directory, the value the task sends on errCh
    pRep,          \* per package, where the task of lines 610-612 is
    pErr,          \* per package, the value it sends on getObjects' errCh
    pProd,         \* per package, where the task of lines 650-658 is
    pTodo,         \* per package, the entries its range has not visited yet
    pClosed,       \* per package, whether its channel is closed
    iFwd,          \* per package, where the forwarding task of getObjects' converge is
    iFwdVal,       \* per package, the value it is sending
    iWg,           \* per directory, the WaitGroup counter of getObjects' converge
    iCloser,       \* per directory, where its closing task is
    iXClosed,      \* per directory, whether getObjects' finalCh is closed
    cClosed,       \* per directory, whether its channel c is closed
    oFwd,          \* per directory, where the forwarding task of the outer converge is
    oFwdVal,       \* per directory, the value it is sending
    oWg,           \* the WaitGroup counter of the outer converge
    oCloser,       \* where its closing task is
    oXClosed       \* whether getObjectsRecursive's finalCh is closed

rInput == <<rRoot, rTree, rCheckOK, rDefs>>

rMain == <<rPc, rResult, rRetObjs, rRetErr>>

rDir == <<gPc, gVal, gErr>>

rPkg == <<pRep, pErr, pProd, pTodo, pClosed>>

rInner == <<iFwd, iFwdVal, iWg, iCloser, iXClosed>>

rOuter == <<cClosed, oFwd, oFwdVal, oWg, oCloser, oXClosed>>

recVars == <<rInput, rMain, rDir, rPkg, rInner, rOuter>>

vars == <<mainPc, objects, argVars, recVars, histVars, printed, aggVars, matchVars>>

\* Everything but the state of getObjectsRecursive.
flatVars == <<mainPc, objects, argVars, histVars, printed, aggVars, matchVars>>

(***************************************************************************)
(* Errors (errors.go).                                                     *)
(***************************************************************************)
Nil == [kind |-> "nil"]

\* The error conf.Check reports for unit u.
CheckError(u) == [kind |-> "types.Error", unit |-> u]

\* The error parser.ParseDir or parser.ParseFile reports.
ParseError == [kind |-> "scanner.ErrorList"]

wrapErr(msg, e) ==
    [kind |-> "wrappedErr",
     message |-> IF e.kind = "wrappedErr" THEN msg \o ": " \o e.message ELSE msg,
     err |-> e]

(***************************************************************************)
(* The inputs of getObjects: what the file system and the type checker     *)
(* hold for the path.                                                      *)
(***************************************************************************)
Units == 1..MaxUnits

\* The info.Defs tables tried for unit u, whose package object is u: a map
\* entry is the ObjectIdent its key and value would make.  The entry of a
\* package clause (no object, no ast object) and that of a method name (an
\* object, no ast object) are the ones line 362 skips.
\*   package p; type A interface { Dine() int }; func Use(a A)
\*   func (t *T) Dine() int
DefsOf(u) ==
    IF u <= 2
    THEN { { ObjectIdent(Object(u, IF u = 1 THEN TypA ELSE TypA2), 10 * u + 1, TRUE),
             ObjectIdent(Object(u, IF u = 1 THEN TypA ELSE TypA2), 10 * u + 8, TRUE),
             ObjectIdent(NilObject, 10 * u, FALSE) },
           { ObjectIdent(Object(u, Pointer(TypT)), 10 * u + 5, TRUE),
             ObjectIdent(Object(u, Basic("func() int")), 10 * u + 9, FALSE) } }
    ELSE { { ObjectIdent(Object(u, TypT), 10 * u + 4, TRUE) } }

\* The entries of a Defs table that line 362 lets through.
Emitted(d) == { e \in d : ~(e.Object = NilObject \/ ~e.Ident.Obj) }

\* The file systems tried: a directory d with the packages 1..n, the file
\* d/a.go declaring package FilePkg; the path names d or d/a.go.
FileSystems ==
    { [IsDir |-> TRUE, Units |-> 1..n, FilePkg |-> IF n = 0 THEN 0 ELSE 1] : n \in 0..MaxUnits }
    \cup { [IsDir |-> FALSE, Units |-> 1..n, FilePkg |-> u] : n \in 1..MaxUnits, u \in 1..MaxUnits }

\* The path that names what f describes.
PathOf(f) == IF f.IsDir THEN <<"d">> ELSE <<"d", "a.go">>

\* The files of directory d that declare package u.
DirFiles(u) == IF u = fs.FilePkg THEN {"a.go", "b.go"} ELSE {ToString(u) \o ".go"}

\* filepath.Base
Base(path) == path[Len(path)]

\* parser.ParseDir, lines 321-325: a package per package name of the
\* directory, with all its files.
ParseDir == [u \in fs.Units |-> [Name |-> u, Files |-> DirFiles(u)]]

\* parsePath reading the whole directory of the path, file or not.
parsePathDir(path) == ParseDir

\* parsePath, lines 309-341, when nothing fails.
parsePath(path) ==
    IF fs.IsDir
    THEN ParseDir
    ELSE LET pkg == [Name |-> fs.FilePkg, Files |-> {Base(path)}]
         IN  [u \in {pkg.Name} |-> pkg]

InitAgg ==
    /\ pathOK \in BOOLEAN
    /\ fs \in { f \in FileSystems : f.FilePkg \in f.Units \cup {0} }
    /\ pkgs = <<>>
    /\ checkOK \in [fs.Units -> BOOLEAN]
    /\ defs \in { f \in [fs.Units -> UNION { DefsOf(u) : u \in Units }] :
                      \A u \in fs.Units : f[u] \in DefsOf(u) }
    /\ aggPc = "start"
    /\ sharedChs = <<>>
    /\ rep = <<>>
    /\ repErr = <<>>
    /\ prod = <<>>
    /\ prodTodo = <<>>
    /\ prodVal = <<>>
    /\ chClosed = <<>>
    /\ fwd = <<>>
    /\ fwdVal = <<>>
    /\ wg = 0
    /\ closer = "none"
    /\ xClosed = FALSE
    /\ result = <<>>
    /\ retObjs = <<>>
    /\ retErr = Nil
    /\ sent = <<>>
    /\ chCloses = <<>>
    /\ xCloses = <<>>

\* The process runs until logger.Fatal or the end of main.
Running == mainPc \notin {"fatal", "exit"}

\* getObjects lines 268-272: parsePath fails
ParseFail ==
    /\ Running /\ mainPc = "getObjects" /\ aggPc = "start"
    /\ ~pathOK
    /\ retObjs' = <<>>
    /\ retErr' = wrapErr(IF fs.IsDir THEN "failed to parse directory"
                                      ELSE "failed to parse file", ParseError)
    /\ aggPc' = "returned"
    /\ UNCHANGED <<inputVars, sharedChs, taskVars, result>>
    /\ UNCHANGED <<mainPc, objects, argVars, recVars, histVars, printed, matchVars>>

\* getObjects lines 268-291: parsePath returns m; a channel and a task per
\* unit (lines 283-289), then converge (lines 175-193) starts a forwarding
\* task per channel and the closing task.  None of these lines blocks.  The
\* range over the map visits the units in an order nothing later depends on;
\* sharedChs lists them in increasing order.
Start ==
    /\ Running /\ mainPc = "getObjects" /\ aggPc = "start"
    /\ pathOK
    /\ pkgs' = parsePath(argPath)
    /\ \E chs \in [1..Cardinality(m') -> m'] :
          /\ \A i, j \in 1..Cardinality(m') : i < j => chs[i] < chs[j]
          /\ sharedChs' = chs
    /\ rep' = [u \in m' |-> "check"]
    /\ repErr' = [u \in m' |-> Nil]
    /\ prod' = [u \in m' |-> "none"]
    /\ prodTodo' = [u \in m' |-> {}]
    /\ prodVal' = [u \in m' |-> ObjectIdent(NilObject, 0, FALSE)]
    /\ chClosed' = [u \in m' |-> FALSE]
    /\ wg' = Cardinality(m')
    /\ fwd' = [u \in m' |-> "recv"]
    /\ fwdVal' = [u \in m' |-> ObjectIdent(NilObject, 0, FALSE)]
    /\ closer' = "wait"
    /\ aggPc' = "select"
    /\ sent' = [u \in m' |-> <<>>]
    /\ chCloses' = [u \in m' |-> <<>>]
    /\ UNCHANGED <<pathOK, fs, checkOK, defs, result, retObjs, retErr, xClosed>>
    /\ UNCHANGED <<mainPc, objects, argVars, recVars, xCloses, printed, matchVars>>

\* getObjectsPkg closing its channel before it returns the error (as the
\* getObjectsPkg of main.go does).
CheckFailClosing(u) ==
    /\ Running /\ rep[u] = "check"
    /\ ~checkOK[u]
    /\ chClosed' = [chClosed EXCEPT ![u] = TRUE]
    /\ repErr' = [repErr EXCEPT ![u] =
          wrapErr("type-checks failed. Make sure dependencies are completely installed",
                  CheckError(u))]
    /\ rep' = [rep EXCEPT ![u] = "send"]
    /\ chCloses' = [chCloses EXCEPT ![u] = Append(@, "getObjectsPkg")]
    /\ UNCHANGED <<inputVars, aggPc, sharedChs, result, retObjs, retErr>>
    /\ UNCHANGED <<prod, prodTodo, prodVal, fwd, fwdVal, wg, closer, xClosed>>
    /\ UNCHANGED <<mainPc, objects, argVars, recVars, sent, xCloses, printed, matchVars>>

\* getObjectsPkg starting its ranging task although the type check failed.
CheckFailProducing(u) ==
    /\ Running /\ rep[u] = "check"
    /\ ~checkOK[u]
    /\ prod' = [prod EXCEPT ![u] = "range"]
    /\ prodTodo' = [prodTodo EXCEPT ![u] = defs[u]]
    /\ repErr' = [repErr EXCEPT ![u] =
          wrapErr("type-checks failed. Make sure dependencies are completely installed",
                  CheckError(u))]
    /\ rep' = [rep EXCEPT ![u] = "send"]
    /\ UNCHANGED <<inputVars, aggPc, sharedChs, result, retObjs, retErr>>
    /\ UNCHANGED <<prodVal, chClosed, fwd, fwdVal, wg, closer, xClosed>>
    /\ UNCHANGED <<mainPc, objects, argVars, recVars, histVars, printed, matchVars>>

\* getObjectsPkg lines 344-357: the type check of unit u fails
CheckFail(u) ==
    /\ Running /\ rep[u] = "check"
    /\ ~checkOK[u]
    /\ repErr' = [repErr EXCEPT ![u] =
          wrapErr("type-checks failed. Make sure dependencies are completely installed",
                  CheckError(u))]
    /\ rep' = [rep EXCEPT ![u] = "send"]
    /\ UNCHANGED <<inputVars, aggPc, sharedChs, result, retObjs, retErr>>
    /\ UNCHANGED <<prod, prodTodo, prodVal, chClosed, fwd, fwdVal, wg, closer, xClosed>>
    /\ UNCHANGED <<mainPc, objects, argVars, recVars, histVars, printed, matchVars>>

\* getObjectsPkg lines 344-369: the type check succeeds, the producer starts
CheckPass(u) ==
    /\ Running /\ rep[u] = "check"
    /\ checkOK[u]
    /\ prod' = [prod EXCEPT ![u] = "range"]
    /\ prodTodo' = [prodTodo EXCEPT ![u] = defs[u]]
    /\ repErr' = [repErr EXCEPT ![u] = Nil]
    /\ rep' = [rep EXCEPT ![u] = "send"]
    /\ UNCHANGED <<inputVars, aggPc, sharedChs, result, retObjs, retErr>>
    /\ UNCHANGED <<prodVal, chClosed, fwd, fwdVal, wg, closer, xClosed>>
    /\ UNCHANGED <<mainPc, objects, argVars, recVars, histVars, printed, matchVars>>

\* getObjectsPkg lines 361-364: the range over info.Defs meets an entry to skip
ProdSkip(u) ==
    /\ Running /\ prod[u] = "range"
    /\ \E e \in prodTodo[u] :
          /\ e.Object = NilObject \/ ~e.Ident.Obj
          /\ prodTodo' = [prodTodo EXCEPT ![u] = @ \ {e}]
    /\ UNCHANGED <<inputVars, aggPc, sharedChs, result, retObjs, retErr>>
    /\ UNCHANGED <<rep, repErr, prod, prodVal, chClosed, fwd, fwdVal, wg, closer, xClosed>>
    /\ UNCHANGED <<mainPc, objects, argVars, recVars, histVars, printed, matchVars>>

\* The range sending whatever entry it meets.
ProdEmitAny(u) ==
    /\ Running /\ prod[u] = "range"
    /\ \E e \in prodTodo[u] :
          /\ prodTodo' = [prodTodo EXCEPT ![u] = @ \ {e}]
          /\ prodVal' = [prodVal EXCEPT ![u] = e]
    /\ prod' = [prod EXCEPT ![u] = "send"]
    /\ UNCHANGED <<inputVars, aggPc, sharedChs, result, retObjs, retErr>>
    /\ UNCHANGED <<rep, repErr, chClosed, fwd, fwdVal, wg, closer, xClosed>>
    /\ UNCHANGED <<mainPc, objects, argVars, recVars, histVars, printed, matchVars>>

\* getObjectsPkg lines 361-365: the range meets an entry to send
ProdEmit(u) ==
    /\ Running /\ prod[u] = "range"
    /\ \E e \in prodTodo[u] :
          /\ ~(e.Object = NilObject \/ ~e.Ident.Obj)
          /\ prodTodo' = [prodTodo EXCEPT ![u] = @ \ {e}]
          /\ prodVal' = [prodVal EXCEPT ![u] = e]
    /\ prod' = [prod EXCEPT ![u] = "send"]
    /\ UNCHANGED <<inputVars, aggPc, sharedChs, result, retObjs, retErr>>
    /\ UNCHANGED <<rep, repErr, chClosed, fwd, fwdVal, wg, closer, xClosed>>
    /\ UNCHANGED <<mainPc, objects, argVars, recVars, histVars, printed, matchVars>>

\* getObjectsPkg line 360: the range is over, the deferred close(ch) runs
ProdClose(u) ==
    /\ Running /\ prod[u] = "range"
    /\ prodTodo[u] = {}
    /\ chClosed' = [chClosed EXCEPT ![u] = TRUE]
    /\ prod' = [prod EXCEPT ![u] = "done"]
    /\ chCloses' = [chCloses EXCEPT ![u] = Append(@, "getObjectsPkg.func")]
    /\ UNCHANGED <<inputVars, aggPc, sharedChs, result, retObjs, retErr>>
    /\ UNCHANGED <<rep, repErr, prodTodo, prodVal, fwd, fwdVal, wg, closer, xClosed>>
    /\ UNCHANGED <<mainPc, objects, argVars, recVars, sent, xCloses, printed, matchVars>>

\* The send of getObjectsPkg line 365 meets the receive of converge line 182
\* (c is unbuffered).
Forward(u) ==
    /\ Running /\ prod[u] = "send" /\ fwd[u] = "recv"
    /\ fwdVal' = [fwdVal EXCEPT ![u] = prodVal[u]]
    /\ fwd' = [fwd EXCEPT ![u] = "send"]
    /\ prod' = [prod EXCEPT ![u] = "range"]
    /\ sent' = [sent EXCEPT ![u] = Append(@, prodVal[u])]
    /\ UNCHANGED <<inputVars, aggPc, sharedChs, result, retObjs, retErr>>
    /\ UNCHANGED <<rep, repErr, prodTodo, prodVal, chClosed, wg, closer, xClosed>>
    /\ UNCHANGED <<mainPc, objects, argVars, recVars, chCloses, xCloses, printed, matchVars>>

\* The forwarding task leaving its loop while its channel is still open.
ForwardDoneEarly(u) ==
    /\ Running /\ fwd[u] = "recv"
    /\ fwd' = [fwd EXCEPT ![u] = "done"]
    /\ wg' = wg - 1
    /\ UNCHANGED <<inputVars, aggPc, sharedChs, result, retObjs, retErr>>
    /\ UNCHANGED <<rep, repErr, prod, prodTodo, prodVal, chClosed, fwdVal, closer, xClosed>>
    /\ UNCHANGED <<mainPc, objects, argVars, recVars, histVars, printed, matchVars>>

\* The forwarding task closing x itself when its own channel is closed.
ForwardDoneClosing(u) ==
    /\ Running /\ fwd[u] = "recv"
    /\ chClosed[u]
    /\ fwd' = [fwd EXCEPT ![u] = "done"]
    /\ wg' = wg - 1
    /\ xClosed' = TRUE
    /\ xCloses' = Append(xCloses, "converge.func1")
    /\ UNCHANGED <<inputVars, aggPc, sharedChs, result, retObjs, retErr>>
    /\ UNCHANGED <<rep, repErr, prod, prodTodo, prodVal, chClosed, fwdVal, closer>>
    /\ UNCHANGED <<mainPc, objects, argVars, recVars, sent, chCloses, printed, matchVars>>

\* converge lines 181-182: the range over c ends on the closed channel, wg.Done()
ForwardDone(u) ==
    /\ Running /\ fwd[u] = "recv"
    /\ chClosed[u]
    /\ fwd' = [fwd EXCEPT ![u] = "done"]
    /\ wg' = wg - 1
    /\ UNCHANGED <<inputVars, aggPc, sharedChs, result, retObjs, retErr>>
    /\ UNCHANGED <<rep, repErr, prod, prodTodo, prodVal, chClosed, fwdVal, closer, xClosed>>
    /\ UNCHANGED <<mainPc, objects, argVars, recVars, histVars, printed, matchVars>>

\* The closing task without wg.Wait().
CloseXNoWait ==
    /\ Running /\ closer = "wait"
    /\ xClosed' = TRUE
    /\ closer' = "done"
    /\ xCloses' = Append(xCloses, "converge.func")
    /\ UNCHANGED <<inputVars, aggPc, sharedChs, result, retObjs, retErr>>
    /\ UNCHANGED <<rep, repErr, prod, prodTodo, prodVal, chClosed, fwd, fwdVal, wg>>
    /\ UNCHANGED <<mainPc, objects, argVars, recVars, sent, chCloses, printed, matchVars>>

\* converge lines 188-191: wg.Wait() returns, close(x)
CloseX ==
    /\ Running /\ closer = "wait"
    /\ wg = 0
    /\ xClosed' = TRUE
    /\ closer' = "done"
    /\ xCloses' = Append(xCloses, "converge.func")
    /\ UNCHANGED <<inputVars, aggPc, sharedChs, result, retObjs, retErr>>
    /\ UNCHANGED <<rep, repErr, prod, prodTodo, prodVal, chClosed, fwd, fwdVal, wg>>
    /\ UNCHANGED <<mainPc, objects, argVars, recVars, sent, chCloses, printed, matchVars>>

\* getObjects lines 294-298: the select receives a value from finalCh, sent by
\* converge line 183
SelectObj(u) ==
    /\ Running /\ aggPc = "select"
    /\ fwd[u] = "send"
    /\ result' = Append(result, fwdVal[u])
    /\ fwd' = [fwd EXCEPT ![u] = "recv"]
    /\ UNCHANGED <<inputVars, aggPc, sharedChs, retObjs, retErr>>
    /\ UNCHANGED <<rep, repErr, prod, prodTodo, prodVal, chClosed, fwdVal, wg, closer, xClosed>>
    /\ UNCHANGED <<mainPc, objects, argVars, recVars, histVars, printed, matchVars>>

\* What getObjects returns when finalCh is closed (lines 295-297).
ReturnClosed(r) == <<r, Nil>>

\* return result, err instead of return nil, err.
ReturnErrWithResult(r, e) == <<r, e>>

\* What getObjects returns on a non-nil error (lines 300-302).
ReturnErr(r, e) == <<<<>>, e>>

\* getObjects lines 294-297: the select finds finalCh closed
SelectClosed ==
    /\ Running /\ aggPc = "select"
    /\ xClosed
    /\ retObjs' = ReturnClosed(result)[1]
    /\ retErr' = ReturnClosed(result)[2]
    /\ aggPc' = "returned"
    /\ UNCHANGED <<inputVars, sharedChs, taskVars, result>>
    /\ UNCHANGED <<mainPc, objects, argVars, recVars, histVars, printed, matchVars>>

\* The select returning on a nil error.
SelectNilEnds(u) ==
    /\ Running /\ aggPc = "select"
    /\ rep[u] = "send"
    /\ repErr[u] = Nil
    /\ rep' = [rep EXCEPT ![u] = "done"]
    /\ retObjs' = result
    /\ retErr' = Nil
    /\ aggPc' = "returned"
    /\ UNCHANGED <<inputVars, sharedChs, result>>
    /\ UNCHANGED <<repErr, prod, prodTodo, prodVal, chClosed, fwd, fwdVal, wg, closer, xClosed>>
    /\ UNCHANGED <<mainPc, objects, argVars, recVars, histVars, printed, matchVars>>

\* getObjects lines 299-303: the select receives a nil error from errCh, sent
\* by line 287
SelectNil(u) ==
    /\ Running /\ aggPc = "select"
    /\ rep[u] = "send"
    /\ repErr[u] = Nil
    /\ rep' = [rep EXCEPT ![u] = "done"]
    /\ UNCHANGED <<inputVars, aggPc, sharedChs, result, retObjs, retErr>>
    /\ UNCHANGED <<repErr, prod, prodTodo, prodVal, chClosed, fwd, fwdVal, wg, closer, xClosed>>
    /\ UNCHANGED <<mainPc, objects, argVars, recVars, histVars, printed, matchVars>>

\* The select receiving an error and going on with its loop.
SelectErrIgnored(u) ==
    /\ Running /\ aggPc = "select"
    /\ rep[u] = "send"
    /\ repErr[u] # Nil
    /\ rep' = [rep EXCEPT ![u] = "done"]
    /\ UNCHANGED <<inputVars, aggPc, sharedChs, result, retObjs, retErr>>
    /\ UNCHANGED <<repErr, prod, prodTodo, prodVal, chClosed, fwd, fwdVal, wg, closer, xClosed>>
    /\ UNCHANGED <<mainPc, objects, argVars, recVars, histVars, printed, matchVars>>

\* getObjects lines 299-302: the select receives an error from errCh
SelectErr(u) ==
    /\ Running /\ aggPc = "select"
    /\ rep[u] = "send"
    /\ repErr[u] # Nil
    /\ rep' = [rep EXCEPT ![u] = "done"]
    /\ retObjs' = ReturnErr(result, repErr[u])[1]
    /\ retErr' = ReturnErr(result, repErr[u])[2]
    /\ aggPc' = "returned"
    /\ UNCHANGED <<inputVars, sharedChs, result>>
    /\ UNCHANGED <<repErr, prod, prodTodo, prodVal, chClosed, fwd, fwdVal, wg, closer, xClosed>>
    /\ UNCHANGED <<mainPc, objects, argVars, recVars, histVars, printed, matchVars>>

\* mainImpl lines 61-64: getObjects returned an error, logger.Fatal
MainFatal ==
    /\ mainPc = "getObjects" /\ aggPc = "returned"
    /\ retErr # Nil
    /\ mainPc' = "fatal"
    /\ UNCHANGED <<objects, argVars, recVars, histVars, printed, aggVars, matchVars>>

\* mainImpl lines 61-65: getObjects returned the objects
MainObjects ==
    /\ mainPc = "getObjects" /\ aggPc = "returned"
    /\ retErr = Nil
    /\ objects' = retObjs
    /\ mainPc' = "findImplementers"
    /\ UNCHANGED <<argVars, recVars, histVars, printed, aggVars, matchVars>>

NoResult == [Interface |-> [Name |-> "", Pos |-> NoPos], Implementers |-> <<>>]

\* findImplementers called on what getObjects has collected so far.
FindStartEarly ==
    /\ mainPc = "getObjects"
    /\ mPc = "idle"
    /\ objects' = result
    /\ mainPc' = "findImplementers"
    /\ interfaces' = filterInterfaces(result, targetInterface)
    /\ seen' = <<>>
    /\ results' = <<>>
    /\ ii' = 1
    /\ mPc' = "outer"
    /\ tested' = <<>>
    /\ UNCHANGED <<res, oi, argVars, recVars, histVars, printed, aggVars>>

\* Sequences over S of length at most n.
SeqUpTo(S, n) == UNION { [1..k -> S] : k \in 0..n }

MatchIdle ==
    /\ mPc = "idle"
    /\ interfaces = <<>>
    /\ seen = <<>>
    /\ results = <<>>
    /\ res = NoResult
    /\ ii = 0
    /\ oi = 0
    /\ tested = <<>>

\* getObjectsRecursive is not called.
RecIdle ==
    /\ rRoot = "dir"
    /\ rTree = <<>> /\ rCheckOK = <<>> /\ rDefs = <<>>
    /\ rPc = "idle" /\ rResult = <<>> /\ rRetObjs = <<>> /\ rRetErr = Nil
    /\ gPc = <<>> /\ gVal = <<>> /\ gErr = <<>>
    /\ pRep = <<>> /\ pErr = <<>> /\ pProd = <<>> /\ pTodo = <<>> /\ pClosed = <<>>
    /\ iFwd = <<>> /\ iFwdVal = <<>> /\ iWg = <<>> /\ iCloser = <<>> /\ iXClosed = <<>>
    /\ cClosed = <<>> /\ oFwd = <<>> /\ oFwdVal = <<>>
    /\ oWg = 0 /\ oCloser = "none" /\ oXClosed = FALSE

\* getObjects has returned the universe: nothing of it is left running.
AggReturned ==
    /\ pathOK = TRUE
    /\ fs = [IsDir |-> TRUE, Units |-> {}, FilePkg |-> 0]
    /\ pkgs = <<>>
    /\ checkOK = <<>>
    /\ defs = <<>>
    /\ aggPc = "returned"
    /\ sharedChs = <<>>
    /\ rep = <<>> /\ repErr = <<>>
    /\ prod = <<>> /\ prodTodo = <<>> /\ prodVal = <<>>
    /\ chClosed = <<>>
    /\ fwd = <<>> /\ fwdVal = <<>>
    /\ wg = 0
    /\ closer = "done"
    /\ xClosed = TRUE
    /\ result = objects
    /\ retObjs = objects
    /\ retErr = Nil
    /\ sent = <<>>
    /\ chCloses = <<>>
    /\ xCloses = <<"converge.func">>

\* mainImpl about to call findImplementers on some universe.
InitMatch ==
    /\ RecIdle
    /\ mainPc = "findImplementers"
    /\ objects \in SeqUpTo(Symbols, MaxLen)
    /\ argPath = <<"d">>
    /\ argInterface \in TargetFlags
    /\ argFormat = "plain"
    /\ targetInterface = Text(argInterface)
    /\ concreteOnly \in BOOLEAN
    /\ printed = <<>>
    /\ MatchIdle
    /\ AggReturned

\* mainImpl about to call findImplementers for p.E on declarations of
\* nested pointer types.
InitPos ==
    /\ RecIdle
    /\ mainPc = "findImplementers"
    /\ objects \in SeqUpTo(PosSymbols, MaxLen)
    /\ argPath = <<"d">>
    /\ argInterface = <<"p", ".", "E">>
    /\ argFormat = "plain"
    /\ targetInterface = Text(argInterface)
    /\ concreteOnly \in BOOLEAN
    /\ printed = <<>>
    /\ MatchIdle
    /\ AggReturned

\* s from its element k + 1 on, then its first k elements.
Rotate(s, k) == [i \in 1..Len(s) |-> s[((i + k - 1) % Len(s)) + 1]]

Reverse(s) == [i \in 1..Len(s) |-> s[Len(s) + 1 - i]]

\* The orders in which the symbols of package testpkg are tried: the
\* channels and the range over info.Defs fix none.
P3Orders ==
    { Rotate(P3Universe, k) : k \in 0..(Len(P3Universe) - 1) }
    \cup { Rotate(Reverse(P3Universe), k) : k \in 0..(Len(P3Universe) - 1) }

\* mainImpl about to call findImplementers on the symbols of package testpkg.
InitP3 ==
    /\ RecIdle
    /\ mainPc = "findImplementers"
    /\ objects \in P3Orders
    /\ argPath = <<"d">>
    /\ argInterface \in P3Flags
    /\ argFormat = "plain"
    /\ targetInterface = Text(argInterface)
    /\ concreteOnly \in BOOLEAN
    /\ printed = <<>>
    /\ MatchIdle
    /\ AggReturned

\* mainImpl about to call getObjects.
Init ==
    /\ RecIdle
    /\ mainPc = "getObjects"
    /\ objects = <<>>
    /\ argInterface = <<"p", ".", "A">>
    /\ argFormat = "plain"
    /\ targetInterface = Text(argInterface)
    /\ concreteOnly \in BOOLEAN
    /\ printed = <<>>
    /\ MatchIdle
    /\ InitAgg
    /\ argPath = PathOf(fs)

(***************************************************************************)
(* main and checkFlags (lines 42-82).                                      *)
(***************************************************************************)
\* strings.Split(s, sep) on a sequence of tokens: the runs between the
\* occurrences of sep.
RECURSIVE Split(_, _)
Split(s, sep) ==
    IF s = <<>>
    THEN << <<>> >>
    ELSE LET r == Split(Tail(s), sep)
         IN  IF s[1] = sep
             THEN << <<>> >> \o r
             ELSE << <<s[1]>> \o r[1] >> \o Tail(r)

contains(list, s) == \E i \in 1..Len(list) : list[i] = s

FlagError(msg) == [kind |-> "errors.errorString", message |-> msg]

\* checkFlags without its case on arg.Format.
checkFlagsNoFormat ==
    CASE argPath = <<>> -> FlagError("must specify directory to search (-path flag).")
      [] Len(Split(argInterface, ".")) # 2 ->
            FlagError("must specify interface name in format: packageName.interfaceName (-interface flag).")
      [] OTHER -> Nil

\* checkFlags, lines 69-82
checkFlags ==
    CASE argPath = <<>> -> FlagError("must specify directory to search (-path flag).")
      [] Len(Split(argInterface, ".")) # 2 ->
            FlagError("must specify interface name in format: packageName.interfaceName (-interface flag).")
      [] ~contains(<<"plain", "json", "xml">>, argFormat) ->
            FlagError("output format should be one of: {plain,json,xml}")
      [] OTHER -> Nil

\* main, lines 53-55: checkFlags returns an error, logger.Fatal
MainCheckFlagsFatal ==
    /\ mainPc = "checkFlags"
    /\ checkFlags # Nil
    /\ mainPc' = "fatal"
    /\ UNCHANGED <<objects, argVars, recVars, histVars, printed, aggVars, matchVars>>

\* main, lines 53-57: checkFlags returns nil, mainImpl is called
MainCheckFlagsPass ==
    /\ mainPc = "checkFlags"
    /\ checkFlags = Nil
    /\ mainPc' = "getObjects"
    /\ UNCHANGED <<objects, argVars, recVars, histVars, printed, aggVars, matchVars>>

\* The -interface and -format flags tried by main.
MainInterfaces ==
    { <<>>, <<"A">>, <<".">>, <<"p", ".", "A">>, <<"p", ".", "A", ".", "B">> }

MainFormats == {"plain", "json", "xml", "yaml", ""}

\* Whether a Defs table declares an interface.
DeclaresInterface(d) == \E e \in d : e.Object # NilObject /\ IsInterface(e.Object.typ)

\* main after flag.Parse, about to call checkFlags.  The directory holds as
\* many packages as the bound allows, the first declaring the interface and
\* the others not; all resolve, or all but the first.
InitMain ==
    /\ RecIdle
    /\ mainPc = "checkFlags"
    /\ objects = <<>>
    /\ argInterface \in MainInterfaces
    /\ argFormat \in MainFormats
    /\ targetInterface = Text(argInterface)
    /\ concreteOnly \in BOOLEAN
    /\ printed = <<>>
    /\ MatchIdle
    /\ InitAgg
    /\ fs.Units = Units
    /\ \A u \in Units : DeclaresInterface(defs[u]) <=> u = 1
    /\ \A u \in Units : u # 1 => checkOK[u]
    /\ argPath \in {<<>>, PathOf(fs)}

\* findImplementers, lines 102-104
FindStart ==
    /\ mainPc = "findImplementers"
    /\ mPc = "idle"
    /\ interfaces' = filterInterfaces(objects, targetInterface)
    /\ seen' = <<>>
    /\ results' = <<>>
    /\ ii' = 1
    /\ mPc' = "outer"
    /\ tested' = <<>>
    /\ UNCHANGED <<res, oi, mainPc, objects, argVars, recVars, histVars, printed, aggVars>>

\* outer loop, lines 106-111: the interface was seen before
OuterSeen ==
    /\ mPc = "outer"
    /\ ii <= Len(interfaces)
    /\ NewChar(interfaces[ii].Object) \in DOMAIN seen
    /\ ii' = ii + 1
    /\ UNCHANGED <<tested, mPc, interfaces, seen, results, res, oi>>
    /\ UNCHANGED <<mainPc, objects, argVars, recVars, histVars, printed, aggVars>>

\* The outer loop without the check of line 107.
OuterNewAlways ==
    /\ mPc = "outer"
    /\ ii <= Len(interfaces)
    /\ seen' = SeenAdd(seen, NewChar(interfaces[ii].Object))
    /\ res' = [Interface |-> NewResultIdentifier(interfaces[ii]), Implementers |-> <<>>]
    /\ oi' = 1
    /\ mPc' = "inner"
    /\ UNCHANGED <<tested, interfaces, results, ii>>
    /\ UNCHANGED <<mainPc, objects, argVars, recVars, histVars, printed, aggVars>>

\* outer loop, lines 106-113: a new interface
OuterNew ==
    /\ mPc = "outer"
    /\ ii <= Len(interfaces)
    /\ NewChar(interfaces[ii].Object) \notin DOMAIN seen
    /\ seen' = SeenAdd(seen, NewChar(interfaces[ii].Object))
    /\ res' = [Interface |-> NewResultIdentifier(interfaces[ii]), Implementers |-> <<>>]
    /\ oi' = 1
    /\ mPc' = "inner"
    /\ UNCHANGED <<tested, interfaces, results, ii>>
    /\ UNCHANGED <<mainPc, objects, argVars, recVars, histVars, printed, aggVars>>

\* The key of the interface of the current outer iteration.
CurIn == NewChar(interfaces[ii].Object)

\* inner loop, lines 115-120: the pair was seen before
InnerSeen ==
    /\ mPc = "inner"
    /\ oi <= Len(objects)
    /\ NewChar(objects[oi].Object) \in seen[CurIn]
    /\ oi' = oi + 1
    /\ UNCHANGED <<tested, mPc, interfaces, seen, results, res, ii>>
    /\ UNCHANGED <<mainPc, objects, argVars, recVars, histVars, printed, aggVars>>

\* The concrete-only test made before the pair is put in seen.
InnerSkipUnrecorded ==
    /\ mPc = "inner"
    /\ oi <= Len(objects)
    /\ NewChar(objects[oi].Object) \notin seen[CurIn]
    /\ skipConcrete(concreteOnly, objects[oi].Object.typ)
    /\ tested' = Append(tested, <<CurIn, NewChar(objects[oi].Object), "concrete-only">>)
    /\ oi' = oi + 1
    /\ UNCHANGED <<mPc, interfaces, seen, results, res, ii>>
    /\ UNCHANGED <<mainPc, objects, argVars, recVars, histVars, printed, aggVars>>

\* inner loop, lines 121-124: concrete-only skips an interface
InnerSkipInterface ==
    /\ mPc = "inner"
    /\ oi <= Len(objects)
    /\ NewChar(objects[oi].Object) \notin seen[CurIn]
    /\ skipConcrete(concreteOnly, objects[oi].Object.typ)
    /\ seen' = SeenPut(seen, CurIn, NewChar(objects[oi].Object))
    /\ oi' = oi + 1
    /\ tested' = Append(tested, <<CurIn, NewChar(objects[oi].Object), "concrete-only">>)
    /\ UNCHANGED <<mPc, interfaces, results, res, ii>>
    /\ UNCHANGED <<mainPc, objects, argVars, recVars, histVars, printed, aggVars>>

\* The inner loop putting the implementer in front of the list.
InnerPrepend ==
    /\ mPc = "inner"
    /\ oi <= Len(objects)
    /\ NewChar(objects[oi].Object) \notin seen[CurIn]
    /\ ~skipConcrete(concreteOnly, objects[oi].Object.typ)
    /\ intuitiveImplements(objects[oi].Object, interfaces[ii].Object)
    /\ seen' = SeenPut(seen, CurIn, NewChar(objects[oi].Object))
    /\ res' = [res EXCEPT !.Implementers = <<NewResultIdentifier(objects[oi])>> \o @]
    /\ oi' = oi + 1
    /\ tested' = Append(tested, <<CurIn, NewChar(objects[oi].Object), "tested">>)
    /\ UNCHANGED <<mPc, interfaces, results, ii>>
    /\ UNCHANGED <<mainPc, objects, argVars, recVars, histVars, printed, aggVars>>

\* inner loop, lines 121-127: the object implements the interface
InnerAppend ==
    /\ mPc = "inner"
    /\ oi <= Len(objects)
    /\ NewChar(objects[oi].Object) \notin seen[CurIn]
    /\ ~skipConcrete(concreteOnly, objects[oi].Object.typ)
    /\ intuitiveImplements(objects[oi].Object, interfaces[ii].Object)
    /\ seen' = SeenPut(seen, CurIn, NewChar(objects[oi].Object))
    /\ res' = [res EXCEPT !.Implementers = Append(@, NewResultIdentifier(objects[oi]))]
    /\ oi' = oi + 1
    /\ tested' = Append(tested, <<CurIn, NewChar(objects[oi].Object), "tested">>)
    /\ UNCHANGED <<mPc, interfaces, results, ii>>
    /\ UNCHANGED <<mainPc, objects, argVars, recVars, histVars, printed, aggVars>>

\* The inner loop left at the first object that does not implement.
InnerRejectBreak ==
    /\ mPc = "inner"
    /\ oi <= Len(objects)
    /\ NewChar(objects[oi].Object) \notin seen[CurIn]
    /\ ~skipConcrete(concreteOnly, objects[oi].Object.typ)
    /\ ~intuitiveImplements(objects[oi].Object, interfaces[ii].Object)
    /\ seen' = SeenPut(seen, CurIn, NewChar(objects[oi].Object))
    /\ tested' = Append(tested, <<CurIn, NewChar(objects[oi].Object), "tested">>)
    /\ oi' = Len(objects) + 1
    /\ UNCHANGED <<mPc, interfaces, results, res, ii>>
    /\ UNCHANGED <<mainPc, objects, argVars, recVars, histVars, printed, aggVars>>

\* inner loop, lines 121-127: the object does not implement the interface
InnerReject ==
    /\ mPc = "inner"
    /\ oi <= Len(objects)
    /\ NewChar(objects[oi].Object) \notin seen[CurIn]
    /\ ~skipConcrete(concreteOnly, objects[oi].Object.typ)
    /\ ~intuitiveImplements(objects[oi].Object, interfaces[ii].Object)
    /\ seen' = SeenPut(seen, CurIn, NewChar(objects[oi].Object))
    /\ oi' = oi + 1
    /\ tested' = Append(tested, <<CurIn, NewChar(objects[oi].Object), "tested">>)
    /\ UNCHANGED <<mPc, interfaces, results, res, ii>>
    /\ UNCHANGED <<mainPc, objects, argVars, recVars, histVars, printed, aggVars>>

\* line 129: the inner loop is over
InnerEnd ==
    /\ mPc = "inner"
    /\ oi > Len(objects)
    /\ results' = Append(results, res)
    /\ ii' = ii + 1
    /\ mPc' = "outer"
    /\ UNCHANGED <<tested, interfaces, seen, res, oi>>
    /\ UNCHANGED <<mainPc, objects, argVars, recVars, histVars, printed, aggVars>>

\* line 132: return results; mainImpl goes on to output
FindReturn ==
    /\ mPc = "outer"
    /\ ii > Len(interfaces)
    /\ mPc' = "done"
    /\ mainPc' = "output"
    /\ UNCHANGED <<tested, interfaces, seen, results, res, ii, oi>>
    /\ UNCHANGED <<objects, argVars, recVars, histVars, printed, aggVars>>

\* mainImpl line 66: output(results, arg.Format)
Output ==
    /\ mainPc = "output"
    /\ printed' = results
    /\ mainPc' = "exit"
    /\ UNCHANGED <<objects, argVars, recVars, histVars, matchVars, aggVars>>

(***************************************************************************)
(* getObjectsRecursive (lines 537-585): a task per directory of the tree,  *)
(* each running the getObjects of lines 589-630, which starts a task per   *)
(* package of its directory; two levels of converge.                       *)
(***************************************************************************)
RDirs == DOMAIN rTree

RUnits == UNION { rTree[d].units : d \in RDirs }

\* The directory package u is in.
DirOf(u) == CHOOSE d \in RDirs : u \in rTree[d].units

\* The packages tried for directory d: none, or one named as the directory.
UnitChoices(d) == { {}, {d} }

\* The info.Defs tables tried for package u: those of DefsOf, below the root
\* the ones with a single entry to send.
RecDefsOf(u) == { t \in DefsOf(u) : u = 1 \/ Cardinality(Emitted(t)) = 1 }

\* What a directory can hold: it cannot be read, or it does not parse, or
\* it parses into packages.
DirChoices(d) ==
    { [walkOK |-> FALSE, parseOK |-> FALSE, units |-> {}],
      [walkOK |-> TRUE, parseOK |-> FALSE, units |-> {}] }
    \cup { [walkOK |-> TRUE, parseOK |-> TRUE, units |-> us] : us \in UnitChoices(d) }

\* The trees tried: the root and the directories below it, numbered from 1.
Trees ==
    UNION { { t \in [1..n -> UNION { DirChoices(d) : d \in 1..n }] :
                \A d \in 1..n : t[d] \in DirChoices(d) } : n \in 1..MaxDirs }

NoObjectIdent == ObjectIdent(NilObject, 0, FALSE)

WalkError == [kind |-> "os.PathError"]

NotDirError == [kind |-> "errors.errorString", message |-> "path must be a directory."]

\* mainImpl of line 444 about to call getObjectsRecursive.
InitRec ==
    /\ mainPc = "getObjectsRecursive"
    /\ objects = <<>>
    /\ argPath = <<"d">>
    /\ argInterface = <<"p", ".", "A">>
    /\ argFormat = "plain"
    /\ targetInterface = Text(argInterface)
    /\ concreteOnly = FALSE
    /\ printed = <<>>
    /\ MatchIdle
    /\ AggReturned
    /\ rRoot \in {"dir", "file"}
    /\ rTree \in Trees
    /\ rRoot = "file" => rTree = <<[walkOK |-> TRUE, parseOK |-> TRUE, units |-> {}]>>
    /\ rCheckOK \in [RUnits -> BOOLEAN]
    /\ rDefs \in { f \in [RUnits -> UNION { DefsOf(u) : u \in RUnits }] :
                      \A u \in RUnits : f[u] \in RecDefsOf(u) }
    /\ rPc = "start" /\ rResult = <<>> /\ rRetObjs = <<>> /\ rRetErr = Nil
    /\ gPc = [d \in RDirs |-> "none"]
    /\ gVal = [d \in RDirs |-> NoObjectIdent]
    /\ gErr = [d \in RDirs |-> Nil]
    /\ pRep = [u \in RUnits |-> "none"]
    /\ pErr = [u \in RUnits |-> Nil]
    /\ pProd = [u \in RUnits |-> "none"]
    /\ pTodo = [u \in RUnits |-> {}]
    /\ pClosed = [u \in RUnits |-> FALSE]
    /\ iFwd = [u \in RUnits |-> "none"]
    /\ iFwdVal = [u \in RUnits |-> NoObjectIdent]
    /\ iWg = [d \in RDirs |-> 0]
    /\ iCloser = [d \in RDirs |-> "none"]
    /\ iXClosed = [d \in RDirs |-> FALSE]
    /\ cClosed = [d \in RDirs |-> FALSE]
    /\ oFwd = [d \in RDirs |-> "none"]
    /\ oFwdVal = [d \in RDirs |-> NoObjectIdent]
    /\ oWg = 0 /\ oCloser = "none" /\ oXClosed = FALSE

\* lines 539-547: the path is not a directory
RNotDir ==
    /\ rPc = "start"
    /\ rRoot # "dir"
    /\ rRetObjs' = <<>>
    /\ rRetErr' = NotDirError
    /\ rPc' = "returned"
    /\ UNCHANGED <<rInput, rResult, rDir, rPkg, rInner, rOuter, flatVars>>

\* A walk that visits the root only.
RStartRootOnly ==
    /\ rPc = "start"
    /\ rRoot = "dir"
    /\ gPc' = [d \in RDirs |-> IF d = 1 THEN "parse" ELSE "none"]
    /\ oFwd' = [d \in RDirs |-> IF d = 1 THEN "recv" ELSE "none"]
    /\ oWg' = 1
    /\ oCloser' = "wait"
    /\ rPc' = "select"
    /\ UNCHANGED <<rInput, rResult, rRetObjs, rRetErr, gVal, gErr, rPkg, rInner>>
    /\ UNCHANGED <<cClosed, oFwdVal, oXClosed, flatVars>>

\* lines 555-571: filepath.Walk makes a channel and starts a task for every
\* directory of the tree, then converge starts a forwarding task per channel
\* and the closing task.  None of these lines blocks.
RStart ==
    /\ rPc = "start"
    /\ rRoot = "dir"
    /\ gPc' = [d \in RDirs |-> "parse"]
    /\ oFwd' = [d \in RDirs |-> "recv"]
    /\ oWg' = Cardinality(RDirs)
    /\ oCloser' = "wait"
    /\ rPc' = "select"
    /\ UNCHANGED <<rInput, rResult, rRetObjs, rRetErr, gVal, gErr, rPkg, rInner>>
    /\ UNCHANGED <<cClosed, oFwdVal, oXClosed, flatVars>>

\* lines 562-565: the walk could not read the directory
GWalkErr(d) ==
    /\ gPc[d] = "parse"
    /\ ~rTree[d].walkOK
    /\ gErr' = [gErr EXCEPT ![d] = WalkError]
    /\ gPc' = [gPc EXCEPT ![d] = "report"]
    /\ UNCHANGED <<rInput, rMain, gVal, rPkg, rInner, rOuter, flatVars>>

\* getObjects lines 590-594: parser.ParseDir fails
GParseFail(d) ==
    /\ gPc[d] = "parse"
    /\ rTree[d].walkOK /\ ~rTree[d].parseOK
    /\ gErr' = [gErr EXCEPT ![d] = wrapErr("failed to parse directory", ParseError)]
    /\ gPc' = [gPc EXCEPT ![d] = "report"]
    /\ UNCHANGED <<rInput, rMain, gVal, rPkg, rInner, rOuter, flatVars>>

\* getObjects lines 590-615: a channel and a task per package, then converge
GStart(d) ==
    /\ gPc[d] = "parse"
    /\ rTree[d].walkOK /\ rTree[d].parseOK
    /\ pRep' = [u \in RUnits |-> IF u \in rTree[d].units THEN "check" ELSE pRep[u]]
    /\ iFwd' = [u \in RUnits |-> IF u \in rTree[d].units THEN "recv" ELSE iFwd[u]]
    /\ iWg' = [iWg EXCEPT ![d] = Cardinality(rTree[d].units)]
    /\ iCloser' = [iCloser EXCEPT ![d] = "wait"]
    /\ gPc' = [gPc EXCEPT ![d] = "select"]
    /\ UNCHANGED <<rInput, rMain, gVal, gErr, pErr, pProd, pTodo, pClosed>>
    /\ UNCHANGED <<iFwdVal, iXClosed, rOuter, flatVars>>

\* getObjectsPkg lines 643-649: conf.Check fails, the error is returned and
\* sent on errCh (line 611)
PCheckFail(u) ==
    /\ pRep[u] = "check"
    /\ ~rCheckOK[u]
    /\ pErr' = [pErr EXCEPT ![u] = wrapErr("type-checks failed.", CheckError(u))]
    /\ pRep' = [pRep EXCEPT ![u] = "send"]
    /\ UNCHANGED <<rInput, rMain, rDir, pProd, pTodo, pClosed, rInner, rOuter, flatVars>>

\* getObjectsPkg lines 643-660: conf.Check succeeds, the ranging task is
\* started and nil is returned
PCheckPass(u) ==
    /\ pRep[u] = "check"
    /\ rCheckOK[u]
    /\ pProd' = [pProd EXCEPT ![u] = "range"]
    /\ pTodo' = [pTodo EXCEPT ![u] = rDefs[u]]
    /\ pRep' = [pRep EXCEPT ![u] = "send"]
    /\ UNCHANGED <<rInput, rMain, rDir, pErr, pClosed, rInner, rOuter, flatVars>>

\* getObjectsPkg lines 653-657 with converge line 182: the range reaches an
\* entry line 654 lets through and sends it; the forwarding task receives it
PSend(u) ==
    /\ pProd[u] = "range" /\ iFwd[u] = "recv"
    /\ \E e \in Emitted(pTodo[u]) :
          /\ pTodo' = [pTodo EXCEPT ![u] = @ \ {e}]
          /\ iFwdVal' = [iFwdVal EXCEPT ![u] = e]
    /\ iFwd' = [iFwd EXCEPT ![u] = "send"]
    /\ UNCHANGED <<rInput, rMain, rDir, pRep, pErr, pProd, pClosed>>
    /\ UNCHANGED <<iWg, iCloser, iXClosed, rOuter, flatVars>>

\* getObjectsPkg lines 652-653: nothing is left to send, the deferred close(ch)
PClose(u) ==
    /\ pProd[u] = "range"
    /\ Emitted(pTodo[u]) = {}
    /\ pClosed' = [pClosed EXCEPT ![u] = TRUE]
    /\ pProd' = [pProd EXCEPT ![u] = "done"]
    /\ UNCHANGED <<rInput, rMain, rDir, pRep, pErr, pTodo, rInner, rOuter, flatVars>>

\* converge lines 181-182 under getObjects: the range ends, wg.Done()
IForwardDone(u) ==
    /\ iFwd[u] = "recv"
    /\ pClosed[u]
    /\ iFwd' = [iFwd EXCEPT ![u] = "done"]
    /\ iWg' = [iWg EXCEPT ![DirOf(u)] = @ - 1]
    /\ UNCHANGED <<rInput, rMain, rDir, rPkg, iFwdVal, iCloser, iXClosed, rOuter, flatVars>>

\* converge lines 188-191 under getObjects: wg.Wait() returns, close(x)
ICloseX(d) ==
    /\ iCloser[d] = "wait"
    /\ iWg[d] = 0
    /\ iXClosed' = [iXClosed EXCEPT ![d] = TRUE]
    /\ iCloser' = [iCloser EXCEPT ![d] = "done"]
    /\ UNCHANGED <<rInput, rMain, rDir, rPkg, iFwd, iFwdVal, iWg, rOuter, flatVars>>

\* getObjects lines 619-624: the select receives a value from finalCh and
\* goes to send it on ch
GSelectObj(u) ==
    /\ gPc[DirOf(u)] = "select"
    /\ iFwd[u] = "send"
    /\ gVal' = [gVal EXCEPT ![DirOf(u)] = iFwdVal[u]]
    /\ gPc' = [gPc EXCEPT ![DirOf(u)] = "send"]
    /\ iFwd' = [iFwd EXCEPT ![u] = "recv"]
    /\ UNCHANGED <<rInput, rMain, gErr, rPkg, iFwdVal, iWg, iCloser, iXClosed, rOuter, flatVars>>

\* getObjects line 624 with converge line 182 under getObjectsRecursive: the
\* forwarding task of the directory receives the value sent on ch
OForward(d) ==
    /\ gPc[d] = "send" /\ oFwd[d] = "recv"
    /\ oFwdVal' = [oFwdVal EXCEPT ![d] = gVal[d]]
    /\ oFwd' = [oFwd EXCEPT ![d] = "send"]
    /\ gPc' = [gPc EXCEPT ![d] = "select"]
    /\ UNCHANGED <<rInput, rMain, gVal, gErr, rPkg, rInner>>
    /\ UNCHANGED <<cClosed, oWg, oCloser, oXClosed, flatVars>>

\* getObjects lines 619-623: finalCh is closed, close(ch), return nil
GSelectClosed(d) ==
    /\ gPc[d] = "select"
    /\ iXClosed[d]
    /\ cClosed' = [cClosed EXCEPT ![d] = TRUE]
    /\ gErr' = [gErr EXCEPT ![d] = Nil]
    /\ gPc' = [gPc EXCEPT ![d] = "report"]
    /\ UNCHANGED <<rInput, rMain, gVal, rPkg, rInner>>
    /\ UNCHANGED <<oFwd, oFwdVal, oWg, oCloser, oXClosed, flatVars>>

\* getObjects lines 625-628: the select receives nil from errCh
GSelectNil(u) ==
    /\ gPc[DirOf(u)] = "select"
    /\ pRep[u] = "send"
    /\ pErr[u] = Nil
    /\ pRep' = [pRep EXCEPT ![u] = "done"]
    /\ UNCHANGED <<rInput, rMain, rDir, pErr, pProd, pTodo, pClosed, rInner, rOuter, flatVars>>

\* getObjects lines 625-628: the select receives an error and returns it
GSelectErr(u) ==
    /\ gPc[DirOf(u)] = "select"
    /\ pRep[u] = "send"
    /\ pErr[u] # Nil
    /\ pRep' = [pRep EXCEPT ![u] = "done"]
    /\ gErr' = [gErr EXCEPT ![DirOf(u)] = pErr[u]]
    /\ gPc' = [gPc EXCEPT ![DirOf(u)] = "report"]
    /\ UNCHANGED <<rInput, rMain, gVal, pErr, pProd, pTodo, pClosed, rInner, rOuter, flatVars>>

\* converge lines 181-182 under getObjectsRecursive: the range ends, wg.Done()
OForwardDone(d) ==
    /\ oFwd[d] = "recv"
    /\ cClosed[d]
    /\ oFwd' = [oFwd EXCEPT ![d] = "done"]
    /\ oWg' = oWg - 1
    /\ UNCHANGED <<rInput, rMain, rDir, rPkg, rInner>>
    /\ UNCHANGED <<cClosed, oFwdVal, oCloser, oXClosed, flatVars>>

\* converge lines 188-191 under getObjectsRecursive
OCloseX ==
    /\ oCloser = "wait"
    /\ oWg = 0
    /\ oXClosed' = TRUE
    /\ oCloser' = "done"
    /\ UNCHANGED <<rInput, rMain, rDir, rPkg, rInner>>
    /\ UNCHANGED <<cClosed, oFwd, oFwdVal, oWg, flatVars>>

\* getObjectsRecursive lines 574-579: the select receives a value from finalCh
RSelectObj(d) ==
    /\ rPc = "select"
    /\ oFwd[d] = "send"
    /\ rResult' = Append(rResult, oFwdVal[d])
    /\ oFwd' = [oFwd EXCEPT ![d] = "recv"]
    /\ UNCHANGED <<rInput, rPc, rRetObjs, rRetErr, rDir, rPkg, rInner>>
    /\ UNCHANGED <<cClosed, oFwdVal, oWg, oCloser, oXClosed, flatVars>>

\* lines 574-578: finalCh is closed, return result, nil
RSelectClosed ==
    /\ rPc = "select"
    /\ oXClosed
    /\ rRetObjs' = rResult
    /\ rRetErr' = Nil
    /\ rPc' = "returned"
    /\ UNCHANGED <<rInput, rResult, rDir, rPkg, rInner, rOuter, flatVars>>

\* lines 580-583: the select receives nil from errCh
RSelectNil(d) ==
    /\ rPc = "select"
    /\ gPc[d] = "report"
    /\ gErr[d] = Nil
    /\ gPc' = [gPc EXCEPT ![d] = "done"]
    /\ UNCHANGED <<rInput, rMain, gVal, gErr, rPkg, rInner, rOuter, flatVars>>

\* lines 580-583: the select receives an error, return nil, err
RSelectErr(d) ==
    /\ rPc = "select"
    /\ gPc[d] = "report"
    /\ gErr[d] # Nil
    /\ gPc' = [gPc EXCEPT ![d] = "done"]
    /\ rRetObjs' = <<>>
    /\ rRetErr' = gErr[d]
    /\ rPc' = "returned"
    /\ UNCHANGED <<rInput, rResult, gVal, gErr, rPkg, rInner, rOuter, flatVars>>

NextRec ==
    \/ RNotDir
    \/ RStart
    \/ \E d \in RDirs : GWalkErr(d)
    \/ \E d \in RDirs : GParseFail(d)
    \/ \E d \in RDirs : GStart(d)
    \/ \E u \in RUnits : PCheckFail(u)
    \/ \E u \in RUnits : PCheckPass(u)
    \/ \E u \in RUnits : PSend(u)
    \/ \E u \in RUnits : PClose(u)
    \/ \E u \in RUnits : IForwardDone(u)
    \/ \E d \in RDirs : ICloseX(d)
    \/ \E u \in RUnits : GSelectObj(u)
    \/ \E d \in RDirs : OForward(d)
    \/ \E d \in RDirs : GSelectClosed(d)
    \/ \E u \in RUnits : GSelectNil(u)
    \/ \E u \in RUnits : GSelectErr(u)
    \/ \E d \in RDirs : OForwardDone(d)
    \/ OCloseX
    \/ \E d \in RDirs : RSelectObj(d)
    \/ RSelectClosed
    \/ \E d \in RDirs : RSelectNil(d)
    \/ \E d \in RDirs : RSelectErr(d)

SpecRec == InitRec /\ [][NextRec]_vars

(***************************************************************************)
(* The getObjectsRecursive of main.go (lines 137-184) with its getObjects  *)
(* (lines 188-229) and getObjectsPkg (lines 231-260), on the same state.   *)
(* getObjectsPkg closes its channel when conf.Check fails, getObjects      *)
(* closes ch on every return (defer close(ch)), and the task of a          *)
(* directory goes on to getObjects after it sent the walk error.  The      *)
(* steps whose code reads as in impl.go are those of NextRec.              *)
(***************************************************************************)
NotDirErrorH == [kind |-> "errors.errorString", message |-> "path should be a directory."]

\* mainImpl of main.go line 61 about to call getObjectsRecursive.
InitHier == InitRec

\* main.go lines 139-147: the path is not a directory
HNotDir ==
    /\ rPc = "start"
    /\ rRoot # "dir"
    /\ rRetObjs' = <<>>
    /\ rRetErr' = NotDirErrorH
    /\ rPc' = "returned"
    /\ UNCHANGED <<rInput, rResult, rDir, rPkg, rInner, rOuter, flatVars>>

\* main.go lines 161-164: the walk could not read the directory; the task
\* goes to send err on errCh
HWalkErr(d) ==
    /\ gPc[d] = "parse"
    /\ ~rTree[d].walkOK
    /\ gErr' = [gErr EXCEPT ![d] = WalkError]
    /\ gPc' = [gPc EXCEPT ![d] = "walkreport"]
    /\ UNCHANGED <<rInput, rMain, gVal, rPkg, rInner, rOuter, flatVars>>

\* main.go lines 178-181 with line 163: the select receives the walk error
\* and returns it; the task goes on to line 165, the call of getObjects
HSelectWalkErr(d) ==
    /\ rPc = "select"
    /\ gPc[d] = "walkreport"
    /\ gPc' = [gPc EXCEPT ![d] = "getObjects"]
    /\ rRetObjs' = <<>>
    /\ rRetErr' = gErr[d]
    /\ rPc' = "returned"
    /\ UNCHANGED <<rInput, rResult, gVal, gErr, rPkg, rInner, rOuter, flatVars>>

\* main.go lines 189-194: parser.ParseDir fails, the deferred close(ch)
\* runs and the error is returned, to be sent on errCh (line 165)
HParseFail(d) ==
    /\ \/ gPc[d] = "parse" /\ rTree[d].walkOK
       \/ gPc[d] = "getObjects"
    /\ ~rTree[d].parseOK
    /\ cClosed' = [cClosed EXCEPT ![d] = TRUE]
    /\ gErr' = [gErr EXCEPT ![d] = wrapErr("failed to parse directory", ParseError)]
    /\ gPc' = [gPc EXCEPT ![d] = "report"]
    /\ UNCHANGED <<rInput, rMain, gVal, rPkg, rInner>>
    /\ UNCHANGED <<oFwd, oFwdVal, oWg, oCloser, oXClosed, flatVars>>

\* main.go lines 242-248: conf.Check fails, close(ch), the error is
\* returned and sent on getObjects' errCh (line 211)
HCheckFail(u) ==
    /\ pRep[u] = "check"
    /\ ~rCheckOK[u]
    /\ pClosed' = [pClosed EXCEPT ![u] = TRUE]
    /\ pErr' = [pErr EXCEPT ![u] = wrapErr("type-checks failed.", CheckError(u))]
    /\ pRep' = [pRep EXCEPT ![u] = "send"]
    /\ UNCHANGED <<rInput, rMain, rDir, pProd, pTodo, rInner, rOuter, flatVars>>

\* main.go lines 223-226: the select receives an error, the deferred
\* close(ch) runs and the error is returned
HGSelectErr(u) ==
    /\ gPc[DirOf(u)] = "select"
    /\ pRep[u] = "send"
    /\ pErr[u] # Nil
    /\ pRep' = [pRep EXCEPT ![u] = "done"]
    /\ cClosed' = [cClosed EXCEPT ![DirOf(u)] = TRUE]
    /\ gErr' = [gErr EXCEPT ![DirOf(u)] = pErr[u]]
    /\ gPc' = [gPc EXCEPT ![DirOf(u)] = "report"]
    /\ UNCHANGED <<rInput, rMain, gVal, pErr, pProd, pTodo, pClosed, rInner>>
    /\ UNCHANGED <<oFwd, oFwdVal, oWg, oCloser, oXClosed, flatVars>>

NextHier ==
    \/ HNotDir
    \/ RStart
    \/ \E d \in RDirs : HWalkErr(d)
    \/ \E d \in RDirs : HSelectWalkErr(d)
    \/ \E d \in RDirs : HParseFail(d)
    \/ \E d \in RDirs : GStart(d)
    \/ \E u \in RUnits : HCheckFail(u)
    \/ \E u \in RUnits : PCheckPass(u)
    \/ \E u \in RUnits : PSend(u)
    \/ \E u \in RUnits : PClose(u)
    \/ \E u \in RUnits : IForwardDone(u)
    \/ \E d \in RDirs : ICloseX(d)
    \/ \E u \in RUnits : GSelectObj(u)
    \/ \E d \in RDirs : OForward(d)
    \/ \E d \in RDirs : GSelectClosed(d)
    \/ \E u \in RUnits : GSelectNil(u)
    \/ \E u \in RUnits : HGSelectErr(u)
    \/ \E d \in RDirs : OForwardDone(d)
    \/ OCloseX
    \/ \E d \in RDirs : RSelectObj(d)
    \/ RSelectClosed
    \/ \E d \in RDirs : RSelectNil(d)
    \/ \E d \in RDirs : RSelectErr(d)

SpecHier == InitHier /\ [][NextHier]_vars

NextMatch ==
    \/ FindStart
    \/ OuterSeen
    \/ OuterNew
    \/ InnerSeen
    \/ InnerSkipInterface
    \/ InnerAppend
    \/ InnerReject
    \/ InnerEnd
    \/ FindReturn
    \/ Output

Next ==
    \/ ParseFail
    \/ Start
    \/ \E u \in m : CheckFail(u)
    \/ \E u \in m : CheckPass(u)
    \/ \E u \in m : ProdSkip(u)
    \/ \E u \in m : ProdEmit(u)
    \/ \E u \in m : ProdClose(u)
    \/ \E u \in m : Forward(u)
    \/ \E u \in m : ForwardDone(u)
    \/ CloseX
    \/ \E u \in m : SelectObj(u)
    \/ SelectClosed
    \/ \E u \in m : SelectNil(u)
    \/ \E u \in m : SelectErr(u)
    \/ MainFatal
    \/ MainObjects
    \/ NextMatch

\* mainImpl: getObjects, then findImplementers and output.
Spec == Init /\ [][Next]_vars

\* The Go scheduler runs a goroutine that can run, and a select with a ready
\* case takes one: some step is taken as long as one is possible.
\* The initial states of Spec in which the first package declares the
\* interface and the others do not.
InitFair ==
    /\ Init
    /\ \A u \in fs.Units : DeclaresInterface(defs[u]) <=> u = 1

FairSpec == InitFair /\ [][Next]_vars /\ WF_vars(Next)

NextMain == MainCheckFlagsFatal \/ MainCheckFlagsPass \/ Next

SpecMain == InitMain /\ [][NextMain]_vars

\* findImplementers applied to every bounded universe.
SpecMatch == InitMatch /\ [][NextMatch]_vars

SpecP3 == InitP3 /\ [][NextMatch]_vars

\* findImplementers reporting declarations of nested pointer types.
SpecPos == InitPos /\ [][NextMatch]_vars

(***************************************************************************)
(* Properties of the aggregation (checked under Spec).                     *)
(***************************************************************************)

\* The elements of a sequence.
Range(q) == { q[i] : i \in 1..Len(q) }

\* Every symbol the producers of the units emit.
AllEmitted == UNION { Emitted(defs[u]) : u \in m }

AllResolve == pathOK /\ \A u \in m : checkOK[u]

SomeUnitFails == \E u \in m : ~checkOK[u]

\* The findImplementers of the state machine and of the function agree.
MachineIsFunction ==
    mPc = "done" => results = findImplementers(objects, targetInterface, concreteOnly)

\* C1: when every unit resolves, getObjects returns a nil error and a list
\* that holds each symbol emitted by each unit's producer exactly once
\* (idents are distinct, so the list has no repetition and the emitted set as
\* its range).
C1_CompleteMerge ==
    (aggPc = "returned" /\ AllResolve) =>
        /\ retErr = Nil
        /\ Range(retObjs) = AllEmitted
        /\ Len(retObjs) = Cardinality(AllEmitted)

C1_Witness ==
    /\ aggPc = "returned" /\ AllResolve
    /\ Cardinality(m) = 2
    /\ Len(retObjs) >= 3
    /\ \E i, j \in 1..Len(retObjs) :
          i < j /\ retObjs[i].Object.pkg = 2 /\ retObjs[j].Object.pkg = 1

\* C2: if the type check of some unit fails, getObjects never returns a nil
\* error.
C2_FailureObserved ==
    (aggPc = "returned" /\ SomeUnitFails) => retErr # Nil

\* A unit failed, every other channel is closed and its forwarder done, and
\* getObjects has returned.
C2_Witness ==
    /\ aggPc = "returned" /\ retErr # Nil
    /\ Cardinality(m) = 2
    /\ \E u, v \in m : /\ ~checkOK[u] /\ checkOK[v]
                       /\ chClosed[v] /\ fwd[v] = "done"
                       /\ Len(result) >= 2

\* C3: an error comes with a nil list, and after it mainImpl neither calls
\* findImplementers nor output.
C3_NoPartialResults ==
    retErr # Nil =>
        /\ retObjs = <<>>
        /\ mPc = "idle"
        /\ mainPc \in {"getObjects", "fatal"}
        /\ printed = <<>>

\* logger.Fatal after symbols had been merged.
C3_Witness ==
    /\ mainPc = "fatal"
    /\ Len(result) >= 1
    /\ retObjs = <<>>

\* Task u sits at a send nobody will receive once getObjects has returned:
\* line 287 on errCh, converge line 183 on x, or line 365 on a channel whose
\* forwarder is stuck on x.
BlockedOnSend(u) ==
    \/ rep[u] = "send"
    \/ fwd[u] = "send"
    \/ prod[u] = "send" /\ fwd[u] = "send"

\* C4: when getObjects returns an error, no task is left blocked on a send.
C4_DrainedOnFailure ==
    (Running /\ aggPc = "returned" /\ retErr # Nil) => \A u \in m : ~BlockedOnSend(u)

(***************************************************************************)
(* Properties of findImplementers (checked under SpecMatch).               *)
(***************************************************************************)

\* The identity keys of the symbols the implementers of row r were made from.
ImplKeys(r) == { NewChar(r.Implementers[i].Sym.Object) : i \in 1..Len(r.Implementers) }

\* The symbols of the universe filterInterfaces is meant to select.
Selected == { o \in Range(objects) :
                 IsInterface(o.Object.typ) /\ TypeString(o.Object.typ) = targetInterface }

\* C5: in a returned Result no two implementers come from symbols with the
\* same identity key.
C5_Dedup ==
    mPc = "done" =>
        \A k \in 1..Len(results) :
            \A i, j \in 1..Len(results[k].Implementers) :
                i # j => NewChar(results[k].Implementers[i].Sym.Object)
                            # NewChar(results[k].Implementers[j].Sym.Object)

\* Two receivers of *T in the universe, *T reported.
C5_Witness ==
    /\ mPc = "done"
    /\ \E i, j \in 1..Len(objects) :
          /\ i # j
          /\ objects[i] # objects[j]
          /\ NewChar(objects[i].Object) = NewChar(objects[j].Object)
          /\ \E k \in 1..Len(results) : NewChar(objects[i].Object) \in ImplKeys(results[k])

\* C6: no implementer of a returned Result has the identity key of the
\* Result's interface.
C6_SelfExclusion ==
    mPc = "done" =>
        \A k \in 1..Len(results) :
            NewChar(results[k].Interface.Sym.Object) \notin ImplKeys(results[k])

\* The interface is itself a candidate, under two symbols, and others are
\* reported.
C6_Witness ==
    /\ mPc = "done" /\ ~concreteOnly
    /\ Len(results) = 1
    /\ Len(results[1].Implementers) >= 1
    /\ Cardinality(Selected) >= 2

\* The implementers without concrete-only, for the k-th row.
WithoutFlag(k) == findImplementers(objects, targetInterface, FALSE)[k].Implementers

\* C7: with concrete-only no implementer is of interface kind, and each list
\* is the list of the run without the flag less its interface-kind entries.
C7_ConcreteOnly ==
    (mPc = "done" /\ concreteOnly) =>
        /\ Len(results) = Len(findImplementers(objects, targetInterface, FALSE))
        /\ \A k \in 1..Len(results) :
              /\ \A i \in 1..Len(results[k].Implementers) :
                    ~IsInterface(results[k].Implementers[i].Sym.Object.typ)
              /\ results[k].Implementers =
                    SelectSeq(WithoutFlag(k), LAMBDA e : ~IsInterface(e.Sym.Object.typ))

\* The flag removed an interface and kept a concrete implementer.
C7_Witness ==
    /\ mPc = "done" /\ concreteOnly
    /\ Len(results) >= 1
    /\ Len(results[1].Implementers) >= 1
    /\ Len(WithoutFlag(1)) > Len(results[1].Implementers)

\* The row of the interface with key c, if any.
RowsOf(c) == { k \in 1..Len(results) : NewChar(results[k].Interface.Sym.Object) = c }

\* C8: with concrete-only off, every selected interface has a row, and a
\* candidate of another identity is among its implementers iff the
\* candidate's method set contains every method of the interface; every
\* implementer is a symbol of the universe.
C8_Structural ==
    (mPc = "done" /\ ~concreteOnly) =>
        \A s \in Selected :
            /\ RowsOf(NewChar(s.Object)) # {}
            /\ \A k \in RowsOf(NewChar(s.Object)) :
                  /\ \A i \in 1..Len(results[k].Implementers) :
                        results[k].Implementers[i].Sym \in Range(objects)
                  /\ \A c \in Range(objects) :
                        NewChar(c.Object) # NewChar(s.Object) =>
                            (NewChar(c.Object) \in ImplKeys(results[k])
                                <=> MethodSet(s.Object.typ) \subseteq MethodSet(c.Object.typ))

\* Two distinct interfaces with the same method set: D2 reported for A, while
\* a candidate with Dine of another signature is not.
C8_Witness ==
    /\ mPc = "done" /\ ~concreteOnly /\ targetInterface = "p.A"
    /\ Len(results) = 1
    /\ <<1, "p.D2">> \in ImplKeys(results[1])
    /\ \E c \in Range(objects) : c.Object.typ = TypX

\* Interface b has every method of interface a and one more.
Composes(b, a) ==
    /\ IsInterface(a.Object.typ) /\ IsInterface(b.Object.typ)
    /\ MethodSet(a.Object.typ) \subseteq MethodSet(b.Object.typ)
    /\ MethodSet(b.Object.typ) # MethodSet(a.Object.typ)

\* B is among the implementers of A and A is not among those of B.
ComposeReported ==
    \A a, b \in Range(objects) :
        Composes(b, a) =>
            /\ \A k \in RowsOf(NewChar(a.Object)) : NewChar(b.Object) \in ImplKeys(results[k])
            /\ \A k \in RowsOf(NewChar(b.Object)) : NewChar(a.Object) \notin ImplKeys(results[k])

\* C9 as stated: an interface B composing A is reported as implementing A,
\* and A is not reported as implementing B.
C9_Composite_Original == mPc = "done" => ComposeReported

\* C9 amended: with concrete-only off, an interface B composing A is
\* reported as implementing A, and A is not reported as implementing B.
C9_Composite == (mPc = "done" /\ ~concreteOnly) => ComposeReported

\* A and B in the universe, A queried, B reported.
C9_Witness ==
    /\ mPc = "done" /\ ~concreteOnly /\ targetInterface = "p.A"
    /\ \E a, b \in Range(objects) :
          /\ Composes(b, a)
          /\ \E k \in RowsOf(NewChar(a.Object)) : NewChar(b.Object) \in ImplKeys(results[k])

\* C10: the interface of every returned Result is of interface kind and is
\* printed exactly as the target; without such a symbol there is no row.
C10_FilterByName ==
    mPc = "done" =>
        /\ \A k \in 1..Len(results) :
              /\ IsInterface(results[k].Interface.Sym.Object.typ)
              /\ results[k].Interface.Name = targetInterface
              /\ results[k].Interface.Sym \in Range(objects)
        /\ (Selected = {} => results = <<>>)

\* A concrete symbol printed as the target, and interfaces of other names.
C10_Witness ==
    /\ mPc = "done" /\ targetInterface = "p.T"
    /\ \E c \in Range(objects) : c.Object.typ = TypT
    /\ \E c \in Range(objects) : IsInterface(c.Object.typ)
    /\ results = <<>>

\* The identity keys of the selected interface symbols.
SelectedKeys == { NewChar(o.Object) : o \in Selected }

\* C11: findImplementers returns exactly one Result for every identity key
\* among the selected interface symbols, however often the key occurs in the
\* universe and also when nothing implements it, and no other Result.
C11_OneRowPerIdentity ==
    mPc = "done" =>
        /\ \A c \in SelectedKeys : Cardinality(RowsOf(c)) = 1
        /\ Len(results) = Cardinality(SelectedKeys)

\* The queried interface declared and re-surfaced, nothing implementing it:
\* one row, with no implementers.
C11_Witness ==
    /\ mPc = "done"
    /\ \E i, j \in 1..Len(objects) :
          /\ i # j
          /\ objects[i] \in Selected /\ objects[j] \in Selected
          /\ NewChar(objects[i].Object) = NewChar(objects[j].Object)
    /\ Len(results) = 1
    /\ results[1].Implementers = <<>>

\* The index at which identity key c first occurs in the universe.
FirstIndex(c) ==
    CHOOSE i \in 1..Len(objects) :
        /\ NewChar(objects[i].Object) = c
        /\ \A j \in 1..(i - 1) : NewChar(objects[j].Object) # c

\* C12: the Results are in the order in which their interface's identity
\* first occurs in the universe, and the implementers of a Result are in the
\* order in which their identity first occurs in the universe.
C12_DiscoveryOrder ==
    mPc = "done" =>
        /\ \A k, l \in 1..Len(results) :
              k < l => FirstIndex(NewChar(results[k].Interface.Sym.Object))
                          < FirstIndex(NewChar(results[l].Interface.Sym.Object))
        /\ \A k \in 1..Len(results) :
              \A i, j \in 1..Len(results[k].Implementers) :
                 i < j => FirstIndex(NewChar(results[k].Implementers[i].Sym.Object))
                             < FirstIndex(NewChar(results[k].Implementers[j].Sym.Object))

\* Two rows, the first with two implementers, one of them met twice.
C12_Witness ==
    /\ mPc = "done"
    /\ Len(results) = 2
    /\ Len(results[1].Implementers) = 2

\* C14: when the path names a file and parses, getObjects analyses exactly
\* one unit, named by the package the file declares and holding that file
\* only, with one channel and one task of each kind.
C14_SingleFile ==
    (~fs.IsDir /\ pathOK /\ aggPc # "start") =>
        /\ m = {fs.FilePkg}
        /\ pkgs[fs.FilePkg].Name = fs.FilePkg
        /\ pkgs[fs.FilePkg].Files = {"a.go"}
        /\ sharedChs = <<fs.FilePkg>>
        /\ DOMAIN rep = {fs.FilePkg} /\ rep[fs.FilePkg] # "none"
        /\ DOMAIN prod = {fs.FilePkg}
        /\ DOMAIN fwd = {fs.FilePkg}

\* A file of a directory with two packages, its symbols returned.
C14_Witness ==
    /\ ~fs.IsDir /\ Cardinality(fs.Units) = 2
    /\ aggPc = "returned" /\ retErr = Nil /\ retObjs # <<>>
    /\ Range(retObjs) = Emitted(defs[fs.FilePkg])

\* The number of dots of a sequence of tokens.
Dots(s) == Cardinality({ i \in 1..Len(s) : s[i] = "." })

\* The flags the usage asks for.
FlagsValid ==
    /\ argPath # <<>>
    /\ Dots(argInterface) = 1
    /\ argFormat \in {"plain", "json", "xml"}

\* Nothing of getObjects or findImplementers has run.
EngineUntouched ==
    /\ aggPc = "start" /\ pkgs = <<>> /\ rep = <<>>
    /\ mPc = "idle" /\ objects = <<>> /\ printed = <<>>

\* C15: checkFlags returns nil exactly for a non-empty -path, an -interface
\* with one dot and a -format of plain, json or xml; with any other flags
\* main ends in logger.Fatal with getObjects and findImplementers untouched.
C15_PreFlight ==
    /\ (checkFlags = Nil) <=> FlagsValid
    /\ mainPc = "checkFlags" => EngineUntouched
    /\ (mainPc # "checkFlags" /\ ~FlagsValid) => (mainPc = "fatal" /\ EngineUntouched)

\* A path and an interface as asked for, a format that is not: fatal.
C15_Witness ==
    /\ mainPc = "fatal" /\ EngineUntouched
    /\ argPath # <<>> /\ Dots(argInterface) = 1 /\ argFormat = "yaml"

\* C16: the error a collector reports for a unit whose type check fails
\* wraps the cause conf.Check gave and carries the path of the unit.
C16_ErrorCarriesPath ==
    \A u \in m :
        repErr[u] # Nil =>
            /\ repErr[u].kind = "wrappedErr"
            /\ repErr[u].err = CheckError(u)
            /\ "path" \in DOMAIN repErr[u]

\* The names of the implementers of row r.
Names(r) == { r.Implementers[i].Name : i \in 1..Len(r.Implementers) }

\* findImplementers returned one row, with the implementers named in names,
\* each once.
Yields(names) ==
    /\ Len(results) = 1
    /\ Names(results[1]) = names
    /\ Len(results[1].Implementers) = Cardinality(names)

\* C17: on the symbols of package testpkg, as the tests run it (concrete-only
\* off), Planet is implemented by exactly Human, Landmass, p, Fjord and
\* *Fjord, Human by nothing, and Landmass by exactly *Fjord.
C17_Embedding ==
    (mPc = "done" /\ ~concreteOnly /\ Range(objects) = Range(P3Universe)) =>
        /\ targetInterface = "testpkg.Planet" =>
              Yields({"testpkg.Human", "testpkg.Landmass", "testpkg.p",
                      "testpkg.Fjord", "*testpkg.Fjord"})
        /\ targetInterface = "testpkg.Human" => Yields({})
        /\ targetInterface = "testpkg.Landmass" => Yields({"*testpkg.Fjord"})

\* Planet queried on the package, five implementers returned.
C17_Witness ==
    /\ mPc = "done" /\ ~concreteOnly /\ Range(objects) = Range(P3Universe)
    /\ targetInterface = "testpkg.Planet"
    /\ Len(results) = 1 /\ Len(results[1].Implementers) = 5

\* The values the forwarding task of unit u has received from its channel.
Received(u) ==
    IF prod[u] = "none"
    THEN {}
    ELSE (Emitted(defs[u]) \ prodTodo[u]) \ (IF prod[u] = "send" THEN {prodVal[u]} ELSE {})

\* The values a forwarding task holds, blocked on x <- val.
InFlight == { fwdVal[u] : u \in { v \in m : fwd[v] = "send" } }

\* C18: every value converge received from an input is delivered on out
\* once or is being sent, and nothing else is; out is closed by the closing
\* task only, after every input is closed and every value is delivered; with
\* no input it is closed with nothing delivered.
C18_Converge ==
    /\ UNION { Received(u) : u \in m } = Range(result) \cup InFlight
    /\ Len(result) = Cardinality(Range(result))
    /\ Range(result) \cap InFlight = {}
    /\ xClosed <=> closer = "done"
    /\ xClosed =>
          /\ \A u \in m : chClosed[u] /\ fwd[u] = "done"
          /\ Range(result) = UNION { Received(u) : u \in m }
    /\ (xClosed /\ m = {}) => result = <<>>

\* Two inputs closed, their values delivered, out closed.
C18_Witness ==
    /\ xClosed /\ aggPc = "select"
    /\ Cardinality(m) = 2
    /\ \A u \in m : Received(u) # {}
    /\ Len(result) >= 3

\* C19: under fair scheduling getObjects returns, whatever the number of
\* units and whichever of them resolve.
C19_Terminates == <>(aggPc = "returned")

\* Two units, one failing and one not, some symbols merged before the error
\* was returned.
C19_Witness ==
    /\ aggPc = "returned" /\ retErr # Nil
    /\ Cardinality(m) = 2
    /\ \E u, v \in m : ~checkOK[u] /\ checkOK[v]
    /\ result # <<>>

\* C20: when getObjects has returned a nil error, every task it started has
\* finished: none is at a send on errCh, on its channel or on x.
C20_DrainedOnSuccess ==
    (aggPc = "returned" /\ retErr = Nil) =>
        /\ \A u \in m : rep[u] = "done" /\ prod[u] = "done" /\ fwd[u] = "done"
        /\ closer = "done"

\* Whether the getObjects of lines 267-305 returns a universe for directory
\* d scanned on its own: it can be read, it parses, its packages resolve.
FlatOK(d) ==
    /\ rTree[d].walkOK /\ rTree[d].parseOK
    /\ \A u \in rTree[d].units : rCheckOK[u]

\* The universe it then returns: the entries line 362 lets through, of every
\* package of the directory.
FlatUniverse(d) == UNION { Emitted(rDefs[u]) : u \in rTree[d].units }

C21_FirstError ==
    /\ (aggPc = "returned" /\ pathOK /\ retErr # Nil) =>
          /\ \E u \in m : /\ ~checkOK[u] /\ rep[u] = "done"
                          /\ retErr = repErr[u] /\ retErr.err = CheckError(u)
          /\ Cardinality({ v \in m : rep[v] = "done" /\ repErr[v] # Nil }) = 1
    /\ (aggPc = "returned" /\ pathOK /\ retErr = Nil) =>
          (xClosed /\ Range(retObjs) = AllEmitted)
    /\ aggPc = "select" => \A v \in m : rep[v] = "done" => repErr[v] = Nil

\* A nil error received from one unit, then the error of the other returned.
C21_Witness ==
    /\ aggPc = "returned" /\ retErr # Nil
    /\ \E u, v \in m : /\ u # v
                       /\ rep[v] = "done" /\ repErr[v] = Nil
                       /\ rep[u] = "done" /\ retErr = repErr[u]

\* The symbols of unit u among those received, sent or returned.
Surfaced(u) ==
    Emitted(defs[u]) \cap (Range(result) \cup Range(retObjs) \cup Range(objects)
                             \cup { fwdVal[v] : v \in m } \cup { prodVal[v] : v \in m })

\* C22: for a unit whose type check fails no ranging task is started, its
\* channel carries nothing and none of its symbols reaches a result; the
\* task of a unit that resolves can start its ranging task whatever the
\* other units did.
C22_FailureIsLocal ==
    \A u \in m :
        /\ ~checkOK[u] => (prod[u] = "none" /\ prodTodo[u] = {} /\ Surfaced(u) = {})
        /\ (Running /\ checkOK[u] /\ rep[u] = "check") => ENABLED CheckPass(u)

\* The type check of one unit has failed, its error not yet received; the
\* other unit's producer has run to its end since.
C22_Witness ==
    /\ aggPc = "select"
    /\ \E u, v \in m : /\ ~checkOK[u] /\ rep[u] = "send"
                       /\ checkOK[v] /\ prod[v] = "done"
                       /\ Emitted(defs[v]) \subseteq Range(result)

\* A sequence without a repeated element.
NoRepeat(q) == \A i, j \in 1..Len(q) : q[i] = q[j] => i = j

C24_ChannelOwnership ==
    /\ \A u \in DOMAIN sent :
          /\ Range(sent[u]) \subseteq defs[u]
          /\ chCloses[u] \in {<<>>, <<"getObjectsPkg.func">>}
          /\ ~(chClosed[u] /\ prod[u] = "send")
          /\ ~(xClosed /\ fwd[u] = "send")
    /\ xCloses \in {<<>>, <<"converge.func">>}
    /\ xClosed <=> xCloses # <<>>

\* Every channel of a run with two units is closed, each unit's channel
\* having carried a value.
C24_Witness ==
    /\ Cardinality(DOMAIN sent) = 2
    /\ xCloses = <<"converge.func">>
    /\ \A u \in DOMAIN sent :
          chCloses[u] = <<"getObjectsPkg.func">> /\ sent[u] # <<>>

\* C25: findImplementers takes its steps only after getObjects returned a
\* nil error, on the objects it returned; result changes only in a step of
\* getObjects' select loop; seen changes only in a step of findImplementers,
\* a step that is no step of any task of getObjects.
C25_MatchAfterAggregation ==
    [][ /\ matchVars' # matchVars =>
              /\ aggPc = "returned" /\ retErr = Nil /\ objects = retObjs
              /\ mainPc = "findImplementers"
              /\ UNCHANGED <<aggVars, histVars, objects>>
        /\ result' # result =>
              /\ aggPc = "select" /\ aggPc' = "select" /\ mPc = "idle"
              /\ \E u \in m : fwd[u] = "send" /\ result' = Append(result, fwdVal[u])
      ]_vars

\* findImplementers is in its inner loop while a task of getObjects is
\* still at its send on errCh.
C25_Witness ==
    /\ mPc = "inner" /\ seen # <<>>
    /\ aggPc = "returned" /\ retErr = Nil
    /\ Len(objects) >= 2
    /\ \E u \in m : rep[u] = "send"

\* The (interface, candidate) pairs of a log.
Pairs(q) == [i \in 1..Len(q) |-> <<q[i][1], q[i][2]>>]

\* C26: in one call of findImplementers no (interface, candidate) pair
\* passes line 117 twice, whether it ended at the concrete-only test or in
\* intuitiveImplements (which excludes the interface itself); every pair
\* that passed is in seen, so also the pairs that were skipped.
C26_PairTestedOnce ==
    /\ NoRepeat(Pairs(tested))
    /\ \A i \in 1..Len(tested) :
          /\ tested[i][1] \in DOMAIN seen
          /\ tested[i][2] \in seen[tested[i][1]]

\* A call is over in which a pair was skipped by concrete-only, the
\* interface met itself, and a key occurred twice among the objects.
C26_Witness ==
    /\ mPc = "done"
    /\ \E i, j \in 1..Len(tested) :
          /\ tested[i][3] = "concrete-only"
          /\ tested[j][1] = tested[j][2]
    /\ \E i, j \in 1..Len(objects) :
          i # j /\ NewChar(objects[i].Object) = NewChar(objects[j].Object)

\* Two selected interface symbols of different package objects have
\* different keys, one row each, each passed line 117 as a candidate of the
\* other, and each is among the other's implementers when it has the
\* other's methods.
ForeignTwins ==
    \A a, b \in Selected :
        a.Object.pkg # b.Object.pkg =>
            /\ NewChar(a.Object) # NewChar(b.Object)
            /\ Cardinality(RowsOf(NewChar(a.Object))) = 1
            /\ \E i \in 1..Len(tested) :
                  Pairs(tested)[i] = <<NewChar(a.Object), NewChar(b.Object)>>
            /\ Implements(b.Object.typ, a.Object.typ) =>
                  \A k \in RowsOf(NewChar(a.Object)) :
                      NewChar(b.Object) \in ImplKeys(results[k])

RECURSIVE InOrder(_)
InOrder(S) ==
    IF S = {} THEN <<>>
    ELSE LET x == CHOOSE x \in S : \A y \in S : x.Ident.id <= y.Ident.id
         IN  <<x>> \o InOrder(S \ {x})

\* What a list of Results says, order apart: the interface identities and
\* for each the implementer identities.
Answer(rs) ==
    { <<NewChar(rs[k].Interface.Sym.Object), ImplKeys(rs[k])>> : k \in 1..Len(rs) }

\* Symbols with the same key are of the same kind and method set.
KeysAgree ==
    \A a, b \in AllEmitted :
        NewChar(a.Object) = NewChar(b.Object) =>
            /\ IsInterface(a.Object.typ) = IsInterface(b.Object.typ)
            /\ MethodSet(a.Object.typ) = MethodSet(b.Object.typ)

\* C28: whatever the interleaving of the tasks, so whatever the order in
\* which the symbols arrived, a run that succeeds answers what
\* findImplementers answers on the symbols of the units in the order of
\* their identifiers: the same interface identities, each with the same
\* implementer identities.
C28_ScheduleIndependent ==
    (mPc = "done" /\ KeysAgree) =>
        /\ Range(objects) = AllEmitted
        /\ Answer(results) =
              Answer(findImplementers(InOrder(AllEmitted), targetInterface, concreteOnly))

\* A run whose symbols arrived in another order than that of their
\* identifiers and whose lists are in another order too.
C28_Witness ==
    /\ mPc = "done"
    /\ Len(objects) >= 3
    /\ objects # InOrder(AllEmitted)
    /\ \E k \in 1..Len(results) : results[k].Implementers # <<>>
    /\ results # findImplementers(InOrder(AllEmitted), targetInterface, concreteOnly)

\* The position typ is to be reported at: that of the named type behind its
\* pointers, NoPos when what is behind them is not a named type.
PosBehind(typ) ==
    LET b == CHOOSE b \in PosBases \cup {TypE} :
                 \E d \in 0..(MaxDepth + 1) : typ = Nest(b, d)
    IN  IF b.k = "Named" THEN b.pos ELSE NoPos

\* C30: findDef gives, for a named type behind any number of pointers, the
\* position of the named type, and NoPos for a type that is not a named
\* type behind pointers; so every implementer and interface is reported at
\* the position of the named type its type leads to.
C30_FindDef ==
    /\ \A o \in Range(objects) : findDef(o.Object.typ) = PosBehind(o.Object.typ)
    /\ \A k \in 1..Len(results) :
          /\ results[k].Interface.Pos = PosBehind(results[k].Interface.Sym.Object.typ)
          /\ \A i \in 1..Len(results[k].Implementers) :
                results[k].Implementers[i].Pos
                    = PosBehind(results[k].Implementers[i].Sym.Object.typ)

\* T behind two pointers or more is reported at the position of T, beside
\* an int behind a pointer reported at NoPos.
C30_Witness ==
    /\ mPc = "done"
    /\ \E k \in 1..Len(results) :
          \E i, j \in 1..Len(results[k].Implementers) :
              /\ \E d \in 2..MaxDepth :
                    results[k].Implementers[i].Sym.Object.typ = Nest(TypT, d)
              /\ results[k].Implementers[i].Pos = TypT.pos
              /\ results[k].Implementers[j].Sym.Object.typ.k = "Pointer"
              /\ results[k].Implementers[j].Pos = NoPos

\* C29: in main.go, when the type check of a package fails,
\* getObjectsRecursive does not return a nil error.
C29_HierFailureReported ==
    (rPc = "returned" /\ \E u \in RUnits : ~rCheckOK[u]) => rRetErr # Nil

====
